---------------------------- MODULE Spec2Model ----------------------------
(***************************************************************************)
(* MathPWA: the expression engine (math-engine.ts) and the statistics and  *)
(* combinatorics module (statistics.ts), as state machines.                *)
(*                                                                         *)
(* Text is a TLA+ string; a character is a string of length one.  Each     *)
(* String.prototype.replace(/re/g, ...) of the source is an operator that  *)
(* scans the text left to right the way the regular expression engine     *)
(* does.                                                                   *)
(***************************************************************************)
EXTENDS Integers, Sequences, FiniteSets, TLC

VARIABLES
    call,        \* the function that is running
    pc,          \* position inside the running call
    expression,  \* the text argument of the running call
    processed,   \* preprocessExpression / evaluate: let processed
    angleUnit,   \* evaluate: the angleUnit argument
    scope,       \* evaluate: const scope, the overrides handed to math.evaluate
    raw,         \* evaluate: what math.evaluate returned or threw
    applied,     \* the angle units the trigonometric calls of the evaluation worked in
    result,      \* what the call returned, or the error it threw
    raised,      \* an exception left the call
    count,       \* hasBalancedParentheses / getUnclosedParentheses: let count
    args,        \* the arguments of the running call, by name
    frame        \* the locals of the running call: const k, let i, let result

textVars == <<expression, processed>>

evalVars == <<angleUnit, scope, raw, applied, result, raised>>

combVars == <<args, frame>>

vars ==
    <<call, pc, expression, processed, angleUnit, scope, raw, applied, result,
      raised, count, args, frame>>

-----------------------------------------------------------------------------
(* Bounds of the model *)

\* a text is made of at most MaxPieces pieces
MaxPieces == 3

\* a text of parentheses is made of at most MaxParenPieces pieces
MaxParenPieces == 4

\* the arguments of factorial, permutations and combinations go up to MaxN
MaxN == 56

\* the integer arguments of the domain checks go up to MaxDomainN
MaxDomainN == 3

\* the sequences of the statistics have up to MaxValues values
MaxValues == 4

\* the round trip is run on the probabilities k / RoundSteps
RoundSteps == 40

\* the input of parseDataInput is made of at most MaxInputPieces pieces
MaxInputPieces == 3

\* a run makes at most MaxCalls calls of evaluate
MaxCalls == 3

\* a stored array written by hand has at most MaxStored elements
MaxStored == 3

\* a run of the history hook makes at most MaxOperations calls
MaxOperations == 3

\* a run of the calculator handles at most MaxEvents events
MaxEvents == 4

\* a run of the graph makes at most MaxGraphCalls calls
MaxGraphCalls == 5


-----------------------------------------------------------------------------
(* Characters and regular-expression primitives *)

Max(a, b) == IF a > b THEN a ELSE b

Min(a, b) == IF a < b THEN a ELSE b

CharAt(s, i) == SubSeq(s, i, i)

\* \d
IsDigit(c) == c \in {"0", "1", "2", "3", "4", "5", "6", "7", "8", "9"}

\* [a-zA-Z]
IsLetter(c) ==
    c \in {"a", "b", "c", "d", "e", "f", "g", "h", "i", "j", "k", "l", "m",
           "n", "o", "p", "q", "r", "s", "t", "u", "v", "w", "x", "y", "z",
           "A", "B", "C", "D", "E", "F", "G", "H", "I", "J", "K", "L", "M",
           "N", "O", "P", "Q", "R", "S", "T", "U", "V", "W", "X", "Y", "Z"}

\* \w
IsWordChar(c) == IsLetter(c) \/ IsDigit(c) \/ c = "_"

\* \s
IsSpace(c) == c \in {" ", "\t", "\n"}

\* the literal pat occurs in s starting at index i
OccursAt(s, pat, i) ==
    /\ i >= 1
    /\ i + Len(pat) - 1 <= Len(s)
    /\ SubSeq(s, i, i + Len(pat) - 1) = pat

\* \b in front of index i: exactly one of the characters i-1 and i is a
\* word character (a missing character is not one)
WordBoundary(s, i) ==
    LET before == i > 1 /\ i - 1 <= Len(s) /\ IsWordChar(CharAt(s, i - 1))
        after  == i >= 1 /\ i <= Len(s) /\ IsWordChar(CharAt(s, i))
    IN  before # after

RECURSIVE ReplaceFrom(_, _, _, _, _)
ReplaceFrom(s, pat, rep, wb, i) ==
    IF i > Len(s) THEN ""
    ELSE IF OccursAt(s, pat, i) /\ (wb => WordBoundary(s, i))
         THEN rep \o ReplaceFrom(s, pat, rep, wb, i + Len(pat))
         ELSE CharAt(s, i) \o ReplaceFrom(s, pat, rep, wb, i + 1)

\* s.replace(/pat/g, rep), or s.replace(/\bpat/g, rep) when wb
ReplaceAll(s, pat, rep, wb) == ReplaceFrom(s, pat, rep, wb, 1)

-----------------------------------------------------------------------------
(* The texts the calls are run on *)

RECURSIVE TextsOf(_, _)
\* the concatenations of at most k pieces
TextsOf(pieces, k) ==
    IF k = 0 THEN {""}
    ELSE LET shorter == TextsOf(pieces, k - 1)
         IN  shorter \cup {t \o p : t \in shorter, p \in pieces}

-----------------------------------------------------------------------------
(* preprocessExpression, pass by pass *)

\* × -> *, ÷ -> /, π -> pi
ReplaceGlyphs(s) ==
    ReplaceAll(ReplaceAll(ReplaceAll(s, "×", "*", FALSE), "÷", "/", FALSE),
               "π", "pi", FALSE)

\* the square-root glyph U+221A, which a TLA+ string cannot hold
RootGlyph == "#"

\* U+221A( -> sqrt(
ReplaceSqrt(s) == ReplaceAll(s, RootGlyph \o "(", "sqrt(", FALSE)

\* Step 1: protect ln, log10 and log2
ProtectLogs(s) ==
    ReplaceAll(ReplaceAll(ReplaceAll(s, "ln(", "__NATLOG__(", TRUE),
                          "log10(", "__LOG10__(", TRUE),
               "log2(", "__LOG2__(", TRUE)

\* Step 2: remaining log( -> log10(
RenameLog(s) == ReplaceAll(s, "log(", "log10(", TRUE)

\* Step 3: restore the protected names
RestoreLogs(s) ==
    ReplaceAll(ReplaceAll(ReplaceAll(s, "__NATLOG__(", "log(", FALSE),
                          "__LOG10__(", "log10(", FALSE),
               "__LOG2__(", "log2(", FALSE)

RECURSIVE SkipSpaces(_, _)
SkipSpaces(s, i) ==
    IF i <= Len(s) /\ IsSpace(CharAt(s, i)) THEN SkipSpaces(s, i + 1) ELSE i

\* (\d)(?=\s*[a-zA-Z(])(?![0-9]) matches the character at index i
ImplicitMatchAt(s, i) ==
    /\ IsDigit(CharAt(s, i))
    /\ LET j == SkipSpaces(s, i + 1)
       IN  j <= Len(s) /\ (IsLetter(CharAt(s, j)) \/ CharAt(s, j) = "(")
    /\ ~(i + 1 <= Len(s) /\ IsDigit(CharAt(s, i + 1)))

\* /re$/ for a literal re
EndsWith(s, suffix) ==
    Len(s) >= Len(suffix) /\ SubSeq(s, Len(s) - Len(suffix) + 1, Len(s)) = suffix

\* the callback looking only three characters back
ImplicitCallback_ShortWindow(s, i) ==
    LET before == SubSeq(s, Max(1, i - 3), i - 1)
    IN  IF EndsWith(before, "log") \/ EndsWith(before, "log1")
        THEN CharAt(s, i)
        ELSE CharAt(s, i) \o "*"

\* the replace callback (match, digit, offset); offset = i - 1
ImplicitCallback(s, i) ==
    LET before == SubSeq(s, Max(1, i - 4), i - 1)
    IN  IF EndsWith(before, "log") \/ EndsWith(before, "log1")
           \/ EndsWith(before, "log")
        THEN CharAt(s, i)
        ELSE CharAt(s, i) \o "*"

RECURSIVE ImplicitFrom(_, _)
ImplicitFrom(s, i) ==
    IF i > Len(s) THEN ""
    ELSE IF ImplicitMatchAt(s, i)
         THEN ImplicitCallback(s, i) \o ImplicitFrom(s, i + 1)
         ELSE CharAt(s, i) \o ImplicitFrom(s, i + 1)

\* implicit multiplication: 2π, 3sin, 5(
ImplicitMultiplication(s) == ImplicitFrom(s, 1)

RECURSIVE DigitsEnd(_, _)
\* the index after the run of digits that starts at i
DigitsEnd(s, i) ==
    IF i <= Len(s) /\ IsDigit(CharAt(s, i)) THEN DigitsEnd(s, i + 1) ELSE i

\* (\d+\.?\d*)% matched at index i: the index of the % sign, 0 for no match
PercentMatchEnd(s, i) ==
    IF ~IsDigit(CharAt(s, i)) THEN 0
    ELSE LET j == DigitsEnd(s, i)
             k == IF j <= Len(s) /\ CharAt(s, j) = "."
                  THEN DigitsEnd(s, j + 1) ELSE j
         IN  IF k <= Len(s) /\ CharAt(s, k) = "%" THEN k
             ELSE IF j <= Len(s) /\ CharAt(s, j) = "%" THEN j
             ELSE 0

RECURSIVE PercentFrom(_, _)
PercentFrom(s, i) ==
    IF i > Len(s) THEN ""
    ELSE LET k == PercentMatchEnd(s, i)
         IN  IF k > 0
             THEN "(" \o SubSeq(s, i, k - 1) \o "/100)" \o PercentFrom(s, k + 1)
             ELSE CharAt(s, i) \o PercentFrom(s, i + 1)

\* percentage: <number>% -> (<number>/100)
ReplacePercent(s) == PercentFrom(s, 1)

\* the logarithm passes together
LogPasses(s) == RestoreLogs(RenameLog(ProtectLogs(s)))

preprocessExpression(s) ==
    ReplacePercent(ImplicitMultiplication(LogPasses(ReplaceSqrt(ReplaceGlyphs(s)))))

-----------------------------------------------------------------------------
(* math-engine.ts: numbers, formatNumber, getUserFriendlyError *)

\* Maximum display precision for results
DISPLAY_PRECISION == 12

\* A JavaScript number is Infinity, -Infinity, NaN or the finite value
\* m * 10^e with one significant digit m (m = 0 has e = 0).
Num(m, e) == [t |-> "number", cls |-> "finite", m |-> m, e |-> e]

PosInfinity == [t |-> "number", cls |-> "Infinity", m |-> 0, e |-> 0]

NegInfinity == [t |-> "number", cls |-> "-Infinity", m |-> 0, e |-> 0]

NaN == [t |-> "number", cls |-> "NaN", m |-> 0, e |-> 0]

Abs(x) == IF x < 0 THEN -x ELSE x

RECURSIVE Zeros(_)
Zeros(k) == IF k <= 0 THEN "" ELSE "0" \o Zeros(k - 1)

\* Number.prototype.toExponential(digits)
toExponential(value, digits) ==
    (IF value.m < 0 THEN "-" ELSE "") \o ToString(Abs(value.m)) \o "."
        \o Zeros(digits) \o "e" \o (IF value.e < 0 THEN "-" ELSE "+")
        \o ToString(Abs(value.e))

\* Number.prototype.toString of a finite number
numberToString(value) ==
    LET sign  == IF value.m < 0 THEN "-" ELSE ""
        digit == ToString(Abs(value.m))
    IN  IF value.m = 0 THEN "0"
        ELSE IF value.e >= 21 THEN sign \o digit \o "e+" \o ToString(value.e)
        ELSE IF value.e >= 0 THEN sign \o digit \o Zeros(value.e)
        ELSE IF value.e >= -6 THEN sign \o "0." \o Zeros(-value.e - 1) \o digit
        ELSE sign \o digit \o "e-" \o ToString(-value.e)

\* formatNumber without the special case of the non-finite values
formatNumber_NoSpecialCase(value) ==
    IF value.cls # "finite"
    THEN IF value.cls = "NaN" THEN "NaN" ELSE "Infinity"
    ELSE numberToString(value)

formatNumber(value) ==
    IF value.cls # "finite"
    THEN IF value.cls = "NaN" THEN "Error"
         ELSE IF value.cls = "Infinity" THEN "Infinity" ELSE "-Infinity"
    ELSE IF \/ value.m # 0 /\ (value.e > 12 \/ (value.e = 12 /\ Abs(value.m) > 1))
            \/ value.m # 0 /\ value.e < -10
         THEN toExponential(value, DISPLAY_PRECISION - 4)
         ELSE LET str == numberToString(value)
              IN  IF Len(str) > DISPLAY_PRECISION + 2
                  THEN toExponential(value, DISPLAY_PRECISION - 4)
                  ELSE str

\* Error messages for common calculation errors, in the order of the table
ERROR_MESSAGES ==
    << <<"Undefined function", "Unknown function">>,
       <<"Unexpected end of expression", "Incomplete expression">>,
       <<"Value expected", "Missing value">>,
       <<"Parenthesis ) expected", "Missing )">>,
       <<"Cannot divide by zero", "Divide by zero">> >>

\* String.prototype.includes
Includes(s, pat) == \E i \in 1..(Len(s) + 1) : OccursAt(s, pat, i)

RECURSIVE FriendlyFrom(_, _)
FriendlyFrom(message, i) ==
    IF i > Len(ERROR_MESSAGES)
    THEN IF Len(message) > 30 THEN "Syntax Error" ELSE message
    ELSE IF Includes(message, ERROR_MESSAGES[i][1])
         THEN ERROR_MESSAGES[i][2]
         ELSE FriendlyFrom(message, i + 1)

\* a lookup that stops at the first entry of the table
getUserFriendlyError_FirstEntryOnly(message) ==
    IF Includes(message, ERROR_MESSAGES[1][1]) THEN ERROR_MESSAGES[1][2]
    ELSE IF Len(message) > 30 THEN "Syntax Error" ELSE message

getUserFriendlyError(message) == FriendlyFrom(message, 1)

-----------------------------------------------------------------------------
(* math-engine.ts: evaluate *)

AngleUnits == {"deg", "rad"}

\* String.prototype.trim leaves nothing
IsBlank(s) == \A i \in 1..Len(s) : IsSpace(CharAt(s, i))

\* the overrides of the degree mode: sin, cos and tan convert their argument
\* with degreesToRadians, asin, acos and atan their result with
\* radiansToDegrees
DegreeScope ==
    [f \in {"sin", "cos", "tan", "asin", "acos", "atan"} |->
        IF f \in {"sin", "cos", "tan"} THEN "degreesToRadians"
                                         ELSE "radiansToDegrees"]

EmptyScope == [f \in {} |-> ""]

\* a scope that forgets the inverse functions
buildScope_NoInverse(unit) ==
    IF unit = "deg" THEN [f \in {"sin", "cos", "tan"} |-> "degreesToRadians"]
    ELSE EmptyScope

\* const scope = {}; if (angleUnit === 'deg') { scope['sin'] = ... }
buildScope(unit) == IF unit = "deg" THEN DegreeScope ELSE EmptyScope

\* the trigonometric functions the calculator offers
TrigFunctions == {"sin", "cos", "tan"}

InverseTrigFunctions == {"asin", "acos", "atan"}

\* s[i..j] is a whole identifier and is called: a maximal run of word
\* characters that starts with a letter and is followed by "("
IsCallAt(s, i, j) ==
    /\ IsLetter(CharAt(s, i))
    /\ \A k \in i..j : IsWordChar(CharAt(s, k))
    /\ ~(i > 1 /\ IsWordChar(CharAt(s, i - 1)))
    /\ j + 1 <= Len(s) /\ CharAt(s, j + 1) = "("

\* the function names the text calls
CalledFunctions(s) ==
    {SubSeq(s, i, j) : <<i, j>> \in
        {p \in (1..Len(s)) \X (1..Len(s)) : p[1] <= p[2] /\ IsCallAt(s, p[1], p[2])}}

\* the unit a trigonometric call works in under a scope: an override that
\* converts the argument from degrees (direct functions) or the result to
\* degrees (inverse functions) makes it degrees, math.js itself radians
UnitOfCall(f, sc) ==
    IF f \in DOMAIN sc
    THEN IF \/ f \in TrigFunctions /\ sc[f] = "degreesToRadians"
            \/ f \in InverseTrigFunctions /\ sc[f] = "radiansToDegrees"
         THEN "deg" ELSE "mixed"
    ELSE "rad"

UnitsApplied(s, sc) ==
    {UnitOfCall(f, sc) : f \in CalledFunctions(s) \cap (TrigFunctions \cup InverseTrigFunctions)}

NotEvaluated == [t |-> "none"]

NoResult == [t |-> "none"]

\* no call of the combinatorics is running
NoArguments == [n |-> 0, r |-> 0]

NoFrame == [k |-> 0, i |-> 0, result |-> NoResult]

Success(value, displayValue) ==
    [t |-> "result", success |-> TRUE, value |-> value, displayValue |-> displayValue]

Failure(error) == [t |-> "result", success |-> FALSE, error |-> error]

\* math.evaluate is the collaborator math.js: it returns a number, a
\* boolean, another value (matrix, unit, ...), null or undefined, or throws
\* an Error with a message.
FiniteNumbers ==
    {Num(0, 0), Num(5, 0), Num(-2, 0), Num(1, 100), Num(1, -100), Num(5, -1)}

ThrownMessages ==
    {"Undefined function unknown",
     "Unexpected end of expression (char 4)",
     "Value expected (char 1)",
     "Parenthesis ) expected (char 7)",
     "Cannot divide by zero",
     "Undefined symbol x",
     "Unexpected type of argument in function sin"}

EvaluatorOutcomes ==
    FiniteNumbers \cup {PosInfinity, NegInfinity, NaN}
        \cup {[t |-> "boolean", b |-> b] : b \in BOOLEAN}
        \cup {[t |-> "other", str |-> "[1, 2]"], [t |-> "null"], [t |-> "undefined"]}
        \cup {[t |-> "throw", message |-> msg] : msg \in ThrownMessages}

\* the outcomes of math.evaluate(text, scope); the test 'handles division
\* by zero' fixes the outcome of 1/0
mathEvaluate(text) ==
    IF text = "1/0" THEN {PosInfinity} ELSE EvaluatorOutcomes

\* evaluate without the catch clause
evaluateReturn_NoCatch(o) ==
    IF o.t = "throw" THEN [result |-> NoResult, raised |-> TRUE]
    ELSE IF o.t = "number"
    THEN [result |-> Success(o, formatNumber(o)), raised |-> FALSE]
    ELSE [result |-> Failure("No result"), raised |-> FALSE]

\* evaluate from the result of math.evaluate on: the result types and the
\* catch clause
evaluateReturn(o) ==
    IF o.t = "throw"
    THEN [result |-> Failure(getUserFriendlyError(o.message)), raised |-> FALSE]
    ELSE IF o.t = "number"
    THEN [result |-> Success(o, formatNumber(o)), raised |-> FALSE]
    ELSE IF o.t = "boolean"
    THEN [result |-> Success(IF o.b THEN "true" ELSE "false",
                             IF o.b THEN "true" ELSE "false"), raised |-> FALSE]
    ELSE IF o.t = "other"
    THEN [result |-> Success(o.str, o.str), raised |-> FALSE]
    ELSE [result |-> Failure("No result"), raised |-> FALSE]

EvalPieces == {"sin(", "atan(", "cos(", "1", ")", " ", "/0"}

EvalInit ==
    /\ expression \in TextsOf(EvalPieces, MaxPieces)
    /\ angleUnit \in AngleUnits
    /\ processed = ""
    /\ scope = EmptyScope
    /\ raw = NotEvaluated
    /\ applied = {}
    /\ result = NoResult
    /\ raised = FALSE
    /\ count = 0
    /\ args = NoArguments
    /\ frame = NoFrame
    /\ call = "evaluate"
    /\ pc = "evaluate"

\* if (!expression.trim()) return { success: false, error: 'Empty expression' }
EvalBlank ==
    /\ pc = "evaluate"
    /\ IsBlank(expression)
    /\ result' = Failure("Empty expression")
    /\ pc' = "returned"
    /\ UNCHANGED <<combVars, call, count, expression, processed, angleUnit, scope, raw, applied, raised>>

\* let processed = preprocessExpression(expression)
EvalPreprocess ==
    /\ pc = "evaluate"
    /\ ~IsBlank(expression)
    /\ processed' = preprocessExpression(expression)
    /\ pc' = "scope"
    /\ UNCHANGED <<combVars, call, count, expression, angleUnit, scope, raw, applied, result, raised>>

EvalScope ==
    /\ pc = "scope"
    /\ scope' = buildScope(angleUnit)
    /\ pc' = "math"
    /\ UNCHANGED <<combVars, call, count, expression, processed, angleUnit, raw, applied, result, raised>>

\* const result = math.evaluate(processed, scope)
EvalMath ==
    /\ pc = "math"
    /\ \E o \in mathEvaluate(processed) : raw' = o
    /\ applied' = UnitsApplied(processed, scope)
    /\ pc' = "result"
    /\ UNCHANGED <<combVars, call, count, expression, processed, angleUnit, scope, result, raised>>

EvalReturn ==
    /\ pc = "result"
    /\ result' = evaluateReturn(raw).result
    /\ raised' = evaluateReturn(raw).raised
    /\ pc' = "returned"
    /\ UNCHANGED <<combVars, call, count, expression, processed, angleUnit, scope, raw, applied>>

EvalNext ==
    \/ EvalBlank
    \/ EvalPreprocess
    \/ EvalScope
    \/ EvalMath
    \/ EvalReturn

SpecEval == EvalInit /\ [][EvalNext]_vars

-----------------------------------------------------------------------------
(* math-engine.ts: hasBalancedParentheses and getUnclosedParentheses *)

\* the value a call returned
Returned(value) == [t |-> "returned", value |-> value]

\* if (char === '(') count++; if (char === ')') count--;
CountChar(cnt, char) ==
    LET opened == IF char = "(" THEN cnt + 1 ELSE cnt
    IN  IF char = ")" THEN opened - 1 ELSE opened

\* a loop that never returns early
BalancedStops_Never(cnt) == FALSE

\* if (count < 0) return false
BalancedStops(cnt) == cnt < 0

\* returning the counter itself
UnclosedValue_Signed(cnt) == cnt

\* return Math.max(0, count)
UnclosedValue(cnt) == Max(0, cnt)

ParenPieces == {"(", ")", "sin(", "x"}

ParenInit ==
    /\ call \in {"hasBalancedParentheses", "getUnclosedParentheses"}
    /\ expression \in TextsOf(ParenPieces, MaxParenPieces)
    /\ count = 0
    /\ args = NoArguments
    /\ frame = NoFrame
    /\ pc = 1
    /\ processed = ""
    /\ angleUnit = "rad"
    /\ scope = EmptyScope
    /\ raw = NotEvaluated
    /\ applied = {}
    /\ result = NoResult
    /\ raised = FALSE

\* one turn of for (const char of expression) in hasBalancedParentheses;
\* pc is the index of the character the loop is at
BalancedLoop ==
    /\ call = "hasBalancedParentheses"
    /\ result = NoResult
    /\ pc <= Len(expression)
    /\ LET cnt == CountChar(count, CharAt(expression, pc))
       IN  /\ count' = cnt
           /\ IF BalancedStops(cnt)
              THEN result' = Returned(FALSE) /\ pc' = pc
              ELSE result' = result /\ pc' = pc + 1
    /\ UNCHANGED <<combVars, call, expression, processed, angleUnit, scope, raw, applied, raised>>

\* return count === 0
BalancedReturn ==
    /\ call = "hasBalancedParentheses"
    /\ result = NoResult
    /\ pc > Len(expression)
    /\ result' = Returned(count = 0)
    /\ UNCHANGED <<combVars, call, pc, count, expression, processed, angleUnit, scope, raw, applied, raised>>

\* one turn of for (const char of expression) in getUnclosedParentheses
UnclosedLoop ==
    /\ call = "getUnclosedParentheses"
    /\ result = NoResult
    /\ pc <= Len(expression)
    /\ count' = CountChar(count, CharAt(expression, pc))
    /\ pc' = pc + 1
    /\ UNCHANGED <<combVars, call, expression, processed, angleUnit, scope, raw, applied, result, raised>>

UnclosedReturn ==
    /\ call = "getUnclosedParentheses"
    /\ result = NoResult
    /\ pc > Len(expression)
    /\ result' = Returned(UnclosedValue(count))
    /\ UNCHANGED <<combVars, call, pc, count, expression, processed, angleUnit, scope, raw, applied, raised>>

ParenNext ==
    \/ BalancedLoop
    \/ BalancedReturn
    \/ UnclosedLoop
    \/ UnclosedReturn

SpecParen == ParenInit /\ [][ParenNext]_vars

-----------------------------------------------------------------------------
(* The normalizer run pass by pass on bounded texts *)

NormPieces ==
    {"log(", "ln(", "log10(", "log2(", "log", "1", "2", "(", "+", " ", "x",
     "π", "%", "×"}

NormInit ==
    /\ expression \in TextsOf(NormPieces, MaxPieces)
    /\ processed = expression
    /\ pc = "glyphs"
    /\ call = "preprocessExpression"
    /\ count = 0
    /\ args = NoArguments
    /\ frame = NoFrame
    /\ angleUnit = "rad"
    /\ scope = EmptyScope
    /\ raw = NotEvaluated
    /\ applied = {}
    /\ result = NoResult
    /\ raised = FALSE

NormGlyphs ==
    /\ pc = "glyphs"
    /\ processed' = ReplaceGlyphs(processed)
    /\ pc' = "sqrt"
    /\ UNCHANGED <<combVars, call, count, expression, evalVars>>

NormSqrt ==
    /\ pc = "sqrt"
    /\ processed' = ReplaceSqrt(processed)
    /\ pc' = "protect"
    /\ UNCHANGED <<combVars, call, count, expression, evalVars>>

NormProtect ==
    /\ pc = "protect"
    /\ processed' = ProtectLogs(processed)
    /\ pc' = "rename"
    /\ UNCHANGED <<combVars, call, count, expression, evalVars>>

NormRename ==
    /\ pc = "rename"
    /\ processed' = RenameLog(processed)
    /\ pc' = "restore"
    /\ UNCHANGED <<combVars, call, count, expression, evalVars>>

NormRestore ==
    /\ pc = "restore"
    /\ processed' = RestoreLogs(processed)
    /\ pc' = "implicit"
    /\ UNCHANGED <<combVars, call, count, expression, evalVars>>

NormImplicit ==
    /\ pc = "implicit"
    /\ processed' = ImplicitMultiplication(processed)
    /\ pc' = "percent"
    /\ UNCHANGED <<combVars, call, count, expression, evalVars>>

NormPercent ==
    /\ pc = "percent"
    /\ processed' = ReplacePercent(processed)
    /\ pc' = "normalized"
    /\ UNCHANGED <<combVars, call, count, expression, evalVars>>

NormNext ==
    \/ NormGlyphs
    \/ NormSqrt
    \/ NormProtect
    \/ NormRename
    \/ NormRestore
    \/ NormImplicit
    \/ NormPercent

SpecNorm == NormInit /\ [][NormNext]_vars

\* the examples of the tests and of the README
NormExamples ==
    /\ preprocessExpression("2π") = "2*pi"
    /\ preprocessExpression("3sin(x)") = "3*sin(x)"
    /\ preprocessExpression("5(2+3)") = "5*(2+3)"
    /\ preprocessExpression("log(1000)") = "log10(1000)"
    /\ preprocessExpression("log10(100)") = "log10(100)"
    /\ preprocessExpression("ln(e)") = "log(e)"
    /\ preprocessExpression("log2(8)") = "log2(8)"
    /\ preprocessExpression("50%") = "(50/100)"
    /\ preprocessExpression("12.5%") = "(12.5/100)"
    /\ preprocessExpression("1.2.3%") = "1.(2.3/100)"
    /\ preprocessExpression("3 × 4") = "3 * 4"
    /\ preprocessExpression(RootGlyph \o "(16)") = "sqrt(16)"
    /\ preprocessExpression("2log(100)") = "2*log(100)"
    /\ preprocessExpression("2 ln(5)") = "2* log(5)"
    /\ preprocessExpression("log3(8)") = "log3(8)"
-----------------------------------------------------------------------------
(* statistics.ts: the number type of the combinatorics                     *)
(*                                                                         *)
(* A number is an IEEE 754 double.  A natural number of any size is a      *)
(* sequence of limbs in base 2^LimbBits, least significant limb first and  *)
(* no zero limb at the top.  The positive finite double m * 2^e is the     *)
(* record of m, a natural number of exactly MantissaBits bits, and e; zero *)
(* has no limbs.  Every operation computes the exact result and rounds it  *)
(* to MantissaBits bits, to nearest, ties to even, as the hardware does.   *)

\* the significand of a double
MantissaBits == 53

\* doubles are below 2^MaxExponent
MaxExponent == 1024

\* the limbs of the natural numbers
LimbBits == 15

LimbBase == 2^LimbBits

\* the extra limbs of quotient a division computes before it rounds
DivisionGuardLimbs == 4

\* limb j of a, zero beyond its length
Limb(a, j) == IF j >= 1 /\ j <= Len(a) THEN a[j] ELSE 0

\* without the zero limbs at the top
BigTrim(a) ==
    SubSeq(a, 1, CHOOSE n \in 0..Len(a) :
                     /\ n = 0 \/ a[n] # 0
                     /\ \A j \in (n + 1)..Len(a) : a[j] = 0)

\* the limbs of a natural number below 2^31
BigFromInt(v) ==
    BigTrim(<<v % LimbBase, (v \div LimbBase) % LimbBase, v \div (LimbBase * LimbBase)>>)

\* a + b: limb j receives a carry iff a limb below it overflows and every
\* limb between the two is full
BigAdd(a, b) ==
    LET n        == Max(Len(a), Len(b))
        s        == [j \in 1..(n + 1) |-> Limb(a, j) + Limb(b, j)]
        carry(j) == \E i \in 1..(j - 1) :
                        /\ s[i] >= LimbBase
                        /\ \A h \in (i + 1)..(j - 1) : s[h] = LimbBase - 1
    IN  BigTrim([j \in 1..(n + 1) |->
                    (s[j] + (IF carry(j) THEN 1 ELSE 0)) % LimbBase])

\* a * v for a natural number v below the limb base
BigTimesInt(a, v) ==
    BigAdd([j \in 1..Len(a) |-> (a[j] * v) % LimbBase],
           <<0>> \o [j \in 1..Len(a) |-> (a[j] * v) \div LimbBase])

RECURSIVE DivLimbs(_, _, _, _)
\* long division of the limbs a[1..j] by d, rem being the remainder of the
\* limbs above j
DivLimbs(a, d, j, rem) ==
    IF j = 0 THEN [q |-> <<>>, rem |-> rem]
    ELSE LET t    == rem * LimbBase + a[j]
             rest == DivLimbs(a, d, j - 1, t % d)
         IN  [q |-> Append(rest.q, t \div d), rem |-> rest.rem]

\* quotient and remainder of a by a positive d below the limb base
BigDivInt(a, d) ==
    LET qr == DivLimbs(a, d, Len(a), 0)
    IN  [q |-> BigTrim(qr.q), rem |-> qr.rem]

ZeroLimbs(c) == [j \in 1..c |-> 0]

\* a * 2^s
BigShiftLeft(a, s) ==
    IF a = <<>> THEN <<>>
    ELSE ZeroLimbs(s \div LimbBits) \o BigTimesInt(a, 2^(s % LimbBits))

\* floor(a / 2^s), and whether a one was shifted out
BigShiftRight(a, s) ==
    LET drop == Min(s \div LimbBits, Len(a))
        bits == 2^(s % LimbBits)
    IN  [q    |-> BigTrim([j \in 1..(Len(a) - drop) |->
                     a[drop + j] \div bits
                     + (Limb(a, drop + j + 1) % bits) * (LimbBase \div bits)]),
         lost |-> Limb(a, drop + 1) % bits # 0 \/ \E j \in 1..drop : a[j] # 0]

RECURSIVE TimesBig(_, _, _, _)
\* acc * LimbBase^j + a * (the limbs 1..j of b)
TimesBig(a, b, j, acc) ==
    IF j = 0 THEN acc
    ELSE LET next == BigAdd(BigTimesInt(a, b[j]), <<0>> \o acc)
         IN  IF next = <<>> THEN TimesBig(a, b, j - 1, <<>>)
             ELSE TimesBig(a, b, j - 1, next)

BigTimes(a, b) == BigTrim(TimesBig(a, b, Len(b), <<>>))

\* the number of bits of a
BitLength(a) ==
    IF a = <<>> THEN 0
    ELSE LimbBits * (Len(a) - 1)
         + (CHOOSE c \in 1..LimbBits : a[Len(a)] < 2^c /\ a[Len(a)] >= 2^(c - 1))

IsOdd(a) == a # <<>> /\ a[1] % 2 = 1

Float(m, e) == [cls |-> "finite", m |-> m, e |-> e]

FloatZero == Float(<<>>, 0)

FloatInfinity == [cls |-> "Infinity", m |-> <<>>, e |-> 0]

\* the double nearest to (a + f) * 2^e, where the fraction 0 <= f < 1 is
\* nonzero iff sticky; ties go to the even significand

\* the double m * 2^e of a significand m of 53 bits
Finite(m, e) == IF e + MantissaBits > MaxExponent THEN FloatInfinity ELSE Float(m, e)

\* a significand that the rounding up has brought to 54 bits is halved
RoundCarry(m, e) ==
    IF BitLength(m) > MantissaBits THEN Finite(BigShiftRight(m, 1).q, e + 1)
    ELSE Finite(m, e)

\* upper is the 54 leading bits of a and whether a one was lost below
\* them, kept its 53 leading bits: the last bit of upper is the guard
RoundGuard(upper, kept, sticky, e) ==
    RoundCarry(IF IsOdd(upper.q) /\ (sticky \/ upper.lost \/ IsOdd(kept))
               THEN BigAdd(kept, <<1>>)
               ELSE kept, e)

\* a of len bits
RoundBits(a, len, sticky, e) ==
    IF a = <<>> THEN FloatZero
    ELSE IF len <= MantissaBits
    THEN Float(BigShiftLeft(a, MantissaBits - len), e - (MantissaBits - len))
    ELSE RoundGuard(BigShiftRight(a, len - MantissaBits - 1),
                    BigShiftRight(a, len - MantissaBits).q,
                    sticky, e + len - MantissaBits)

RoundToDouble(a, sticky, e) == RoundBits(a, BitLength(a), sticky, e)

FloatFromInt(v) == RoundToDouble(BigFromInt(v), FALSE, 0)

\* x * v in double arithmetic, for a natural number v below the limb base
FloatTimesInt(x, v) ==
    IF x.cls = "Infinity" THEN FloatInfinity
    ELSE RoundToDouble(BigTimesInt(x.m, v), FALSE, x.e)

\* x / d in double arithmetic, for a positive d below the limb base
FloatDivInt(x, d) ==
    IF x.cls = "Infinity" THEN FloatInfinity
    ELSE LET qr == BigDivInt(ZeroLimbs(DivisionGuardLimbs) \o x.m, d)
         IN  IF x.m = <<>> THEN FloatZero
             ELSE RoundToDouble(qr.q, qr.rem # 0, x.e - DivisionGuardLimbs * LimbBits)

\* x * y in double arithmetic
FloatTimes(x, y) ==
    IF x.cls = "Infinity" \/ y.cls = "Infinity" THEN FloatInfinity
    ELSE RoundToDouble(BigTimes(x.m, y.m), FALSE, x.e + y.e)

\* Math.round of a number that is not negative: the nearest integer, a
\* half goes up
MathRound(x) ==
    IF x.cls = "Infinity" \/ x.e >= 0 THEN x
    ELSE IF -x.e > MantissaBits THEN FloatZero
    ELSE LET upper == BigShiftRight(x.m, -x.e - 1).q
             whole == BigShiftRight(upper, 1).q
         IN  RoundToDouble(IF IsOdd(upper) THEN BigAdd(whole, <<1>>) ELSE whole, FALSE, 0)

\* the natural number a double is, when it is one
IsInteger(x) == x.cls = "finite" /\ (x.e >= 0 \/ ~BigShiftRight(x.m, -x.e).lost)

BigOfFloat(x) == IF x.e >= 0 THEN BigShiftLeft(x.m, x.e) ELSE BigShiftRight(x.m, -x.e).q

-----------------------------------------------------------------------------
(* statistics.ts: signed numbers                                           *)
(*                                                                         *)
(* A number with a sign is the record of neg and of its magnitude mag, a   *)
(* double as above, an infinity or NaN.  +, -, *, / and Math.sqrt are the  *)
(* IEEE 754 operations: the exact result rounded to nearest, ties to even. *)
(* No number of the model comes near the subnormal range.                  *)

\* -1, 0 or 1 as the natural number a is below, equal to or above b
BigCompare(a, b) ==
    IF Len(a) # Len(b) THEN (IF Len(a) < Len(b) THEN -1 ELSE 1)
    ELSE IF a = b THEN 0
    ELSE LET top == CHOOSE j \in 1..Len(a) :
                        a[j] # b[j] /\ \A h \in (j + 1)..Len(a) : a[h] = b[h]
         IN  IF a[top] < b[top] THEN -1 ELSE 1

\* a - b for a >= b: limb j lends iff a limb below it is short and every
\* limb between the two is level
BigSub(a, b) ==
    LET d         == [j \in 1..Len(a) |-> a[j] - Limb(b, j)]
        borrow(j) == \E i \in 1..(j - 1) :
                         /\ d[i] < 0
                         /\ \A h \in (i + 1)..(j - 1) : d[h] = 0
    IN  BigTrim([j \in 1..Len(a) |->
                    (d[j] - (IF borrow(j) THEN 1 ELSE 0) + LimbBase) % LimbBase])

\* the order of two finite magnitudes
FloatCompare(x, y) ==
    IF x.m = <<>> \/ y.m = <<>>
    THEN (IF x.m = y.m THEN 0 ELSE IF x.m = <<>> THEN -1 ELSE 1)
    ELSE IF x.e # y.e THEN (IF x.e < y.e THEN -1 ELSE 1)
    ELSE BigCompare(x.m, y.m)

\* beyond this distance of the exponents the smaller operand of a sum is
\* below a thousandth of the last bit of the larger one
AlignLimit == 64

\* big + small for finite magnitudes big >= small
AddAligned(big, small) ==
    IF small.m = <<>> \/ big.e - small.e > AlignLimit THEN big
    ELSE RoundToDouble(BigAdd(BigShiftLeft(big.m, big.e - small.e), small.m),
                       FALSE, small.e)

\* x + y for finite magnitudes
FloatAdd(x, y) ==
    AddAligned(IF FloatCompare(x, y) >= 0 THEN x ELSE y,
               IF FloatCompare(x, y) >= 0 THEN y ELSE x)

\* x - y for finite magnitudes x >= y
FloatSub(x, y) ==
    IF y.m = <<>> \/ x.e - y.e > AlignLimit THEN x
    ELSE RoundToDouble(BigSub(BigShiftLeft(x.m, x.e - y.e), y.m), FALSE, y.e)

\* the bits of quotient a long division makes after the leading one
QuotientBits == 56

\* the next bit of the quotient: q2 is twice the quotient so far, twice
\* is twice the remainder
QuotientBit(q2, twice, d) ==
    IF BigCompare(twice, d) >= 0
    THEN [q |-> BigAdd(q2, <<1>>), rem |-> BigSub(twice, d)]
    ELSE [q |-> q2, rem |-> twice]

\* one step of the long division by d
QuotientStep(st, d) == QuotientBit(BigTimesInt(st.q, 2), BigTimesInt(st.rem, 2), d)

RECURSIVE QuotientLoop(_, _, _)
\* k steps of the long division: the first half of them, then the rest;
\* once the remainder is zero the bits that follow are zeros
QuotientLoop(st, d, k) ==
    IF k = 0 THEN st
    ELSE IF k = 1 THEN QuotientStep(st, d)
    ELSE LET first == QuotientLoop(st, d, k \div 2)
         IN  IF first.rem = <<>>
             THEN [q |-> BigShiftLeft(first.q, k - k \div 2), rem |-> <<>>]
             ELSE QuotientLoop(first, d, k - k \div 2)

\* the quotient qr of the long division, rounded
RoundQuotient(qr, e) == RoundToDouble(qr.q, qr.rem # <<>>, e)

\* x / y for finite magnitudes that are not zero
FloatDiv(x, y) ==
    RoundQuotient(QuotientLoop(IF BigCompare(x.m, y.m) >= 0
                               THEN [q |-> <<1>>, rem |-> BigSub(x.m, y.m)]
                               ELSE [q |-> <<>>, rem |-> x.m],
                               y.m, QuotientBits),
                  x.e - y.e - QuotientBits)

\* the bits of root the square root computes
RootBits == 55

\* more is the root with one more bit
RootBit(a, root, more) ==
    IF BigCompare(BigTimes(more, more), a) <= 0 THEN more ELSE root

\* one step of the square root of a: bit k of the root
RootStep(a, root, k) == RootBit(a, root, BigAdd(root, BigShiftLeft(<<1>>, k)))

RECURSIVE RootLoop(_, _, _, _)
\* the bits from hi down to lo of the root: the upper half of them, then
\* the rest; once the square is a itself the bits that follow are zeros
RootLoop(a, root, hi, lo) ==
    IF hi = lo THEN RootStep(a, root, hi)
    ELSE LET upper == RootLoop(a, root, hi, (hi + lo + 1) \div 2)
         IN  IF BigTimes(upper, upper) = a THEN upper
             ELSE RootLoop(a, upper, (hi + lo + 1) \div 2 - 1, lo)

\* the root of a, rounded
RoundRoot(a, root, e) == RoundToDouble(root, BigTimes(root, root) # a, e)

\* the square root of a * 4^e
RootOf(a, e) == RoundRoot(a, RootLoop(a, <<>>, RootBits, 0), e)

\* the square root of a finite magnitude: the exponent is made even
FloatSqrt(x) ==
    IF x.m = <<>> THEN FloatZero
    ELSE RootOf(BigShiftLeft(x.m, (x.e % 2) + 2 * RootBits - MantissaBits - 1),
                (x.e - (x.e % 2) - (2 * RootBits - MantissaBits - 1)) \div 2)

FloatNaN == [cls |-> "NaN", m |-> <<>>, e |-> 0]

Signed(neg, mag) == [neg |-> neg, mag |-> mag]

IsNaN(x) == x.mag.cls = "NaN"

IsFinite(x) == x.mag.cls = "finite"

IsZero(x) == IsFinite(x) /\ x.mag.m = <<>>

NumberNaN == Signed(FALSE, FloatNaN)

NumberInfinity == Signed(FALSE, FloatInfinity)

\* the integer v as a number
Number(v) == Signed(v < 0, FloatFromInt(IF v < 0 THEN -v ELSE v))

\* -x
Negate(x) == IF IsNaN(x) THEN x ELSE Signed(~x.neg, x.mag)

\* Math.abs(x)
MathAbs(x) == IF IsNaN(x) THEN x ELSE Signed(FALSE, x.mag)

\* the order of the magnitudes of two numbers that are not NaN
MagnitudeCompare(x, y) ==
    IF ~IsFinite(x) \/ ~IsFinite(y)
    THEN (IF IsFinite(x) THEN -1 ELSE IF IsFinite(y) THEN 1 ELSE 0)
    ELSE FloatCompare(x.mag, y.mag)

\* x < y
Less(x, y) ==
    /\ ~IsNaN(x)
    /\ ~IsNaN(y)
    /\ ~(IsZero(x) /\ IsZero(y))
    /\ IF x.neg # y.neg THEN x.neg
       ELSE IF x.neg THEN MagnitudeCompare(x, y) > 0
       ELSE MagnitudeCompare(x, y) < 0

\* x === y
Same(x, y) ==
    /\ ~IsNaN(x)
    /\ ~IsNaN(y)
    /\ \/ IsZero(x) /\ IsZero(y)
       \/ x = y

\* x <= y
LessEq(x, y) == Less(x, y) \/ Same(x, y)

\* big + small for finite numbers of opposite signs, big the larger magnitude
Difference(big, small) == Signed(big.neg, FloatSub(big.mag, small.mag))

\* x + y
Add(x, y) ==
    IF IsNaN(x) \/ IsNaN(y) THEN NumberNaN
    ELSE IF ~IsFinite(x) \/ ~IsFinite(y)
    THEN (IF ~IsFinite(x) /\ ~IsFinite(y) /\ x.neg # y.neg THEN NumberNaN
          ELSE IF ~IsFinite(x) THEN x ELSE y)
    ELSE IF x.neg = y.neg THEN Signed(x.neg, FloatAdd(x.mag, y.mag))
    ELSE IF FloatCompare(x.mag, y.mag) = 0 THEN Signed(FALSE, FloatZero)
    ELSE Difference(IF FloatCompare(x.mag, y.mag) > 0 THEN x ELSE y,
                    IF FloatCompare(x.mag, y.mag) > 0 THEN y ELSE x)

\* x - y
Sub(x, y) == Add(x, Negate(y))

\* x * y
Mul(x, y) ==
    IF IsNaN(x) \/ IsNaN(y) THEN NumberNaN
    ELSE IF (IsZero(x) /\ ~IsFinite(y)) \/ (IsZero(y) /\ ~IsFinite(x)) THEN NumberNaN
    ELSE Signed(x.neg # y.neg, FloatTimes(x.mag, y.mag))

\* x / y
Div(x, y) ==
    IF IsNaN(x) \/ IsNaN(y) THEN NumberNaN
    ELSE IF (IsZero(x) /\ IsZero(y)) \/ (~IsFinite(x) /\ ~IsFinite(y)) THEN NumberNaN
    ELSE IF ~IsFinite(x) \/ IsZero(y) THEN Signed(x.neg # y.neg, FloatInfinity)
    ELSE IF ~IsFinite(y) \/ IsZero(x) THEN Signed(x.neg # y.neg, FloatZero)
    ELSE Signed(x.neg # y.neg, FloatDiv(x.mag, y.mag))

\* Math.sqrt(x)
MathSqrt(x) ==
    IF IsNaN(x) \/ (x.neg /\ ~IsZero(x)) THEN NumberNaN
    ELSE IF ~IsFinite(x) THEN x
    ELSE Signed(x.neg, FloatSqrt(x.mag))

RECURSIVE PowerOfTen(_)
\* 10^k as a natural number
PowerOfTen(k) ==
    IF k <= 9 THEN BigFromInt(10^k)
    ELSE BigTimes(BigFromInt(10^9), PowerOfTen(k - 9))

\* the number a decimal literal of the source denotes: the literal with
\* the digits hi lo (lo being the last eight digits) and `places` digits
\* behind the decimal point is the double nearest to
\* (hi * 10^8 + lo) / 10^places
Literal(hi, lo, places) ==
    LET digits == BigAdd(BigTimes(BigFromInt(hi), PowerOfTen(8)), BigFromInt(lo))
    IN  Div(Signed(FALSE, RoundToDouble(digits, FALSE, 0)),
            Signed(FALSE, RoundToDouble(PowerOfTen(places), FALSE, 0)))

\* Math.exp and Math.log are implementation-approximated in ECMAScript:
\* the model computes them by series in double arithmetic, to a relative
\* error below 1e-14 for the arguments between -20 and 20 of the model.

\* the terms of the series of e^r for 0 <= r <= 1/2
ExpTerms == 20

\* the terms of the series of the logarithm
LogTerms == 12

RECURSIVE ExpSeries(_, _, _)
\* 1 + r/1 (1 + r/2 (1 + ... (1 + r/k acc)))
ExpSeries(r, k, acc) ==
    IF k = 0 \/ IsNaN(acc) THEN acc
    ELSE ExpSeries(r, k - 1, Add(Number(1), Div(Mul(r, acc), Number(k))))

RECURSIVE SquareTimes(_, _)
\* x^(2^s)
SquareTimes(x, s) ==
    IF s = 0 \/ ~IsFinite(x) THEN x ELSE SquareTimes(Mul(x, x), s - 1)

\* e^x from e^|x|
ExpSigned(x, power) == IF x.neg THEN Div(Number(1), power) ELSE power

\* e^x for a finite x that is not zero, where |x| / 2^s <= 1/2
ExpScaled(x, s) ==
    ExpSigned(x, SquareTimes(ExpSeries(Signed(FALSE, Float(x.mag.m, x.mag.e - s)),
                                       ExpTerms, Number(1)), s))

\* Math.exp(x): e^|x| is the series of |x| / 2^s squared s times, where
\* |x| / 2^s <= 1/2
MathExp(x) ==
    IF IsNaN(x) THEN x
    ELSE IF ~IsFinite(x) THEN (IF x.neg THEN Number(0) ELSE x)
    ELSE IF IsZero(x) THEN Number(1)
    ELSE ExpScaled(x, Max(0, x.mag.e + MantissaBits + 1))

\* Math.LN2
LN2 == Literal(69314718, 5599453, 16)

RECURSIVE LogSeries(_, _, _)
\* 1 + w/3 + w^2/5 + ..., summed from the last term: 1/(2k+1) + w acc
LogSeries(w, k, acc) ==
    IF k < 0 \/ IsNaN(acc) THEN acc
    ELSE LogSeries(w, k - 1, Add(Div(Number(1), Number(2 * k + 1)), Mul(w, acc)))

\* k ln 2 + 2 s (1 + s^2/3 + s^4/5 + ...)
LogSum(k, s) ==
    Add(Mul(Number(k), LN2),
        Mul(Mul(Number(2), s), LogSeries(Mul(s, s), LogTerms, Number(0))))

\* ln (f * 2^k) for f between 1/sqrt(2) and sqrt(2): s = (f - 1) / (f + 1)
LogFraction(f, k) == LogSum(k, Div(Sub(f, Number(1)), Add(f, Number(1))))

\* ln (half * 2^k) for half between 1/2 and 1
LogHalf(half, k) ==
    IF Less(Mul(half, half), Literal(0, 5, 1))
    THEN LogFraction(Mul(half, Number(2)), k - 1)
    ELSE LogFraction(half, k)

\* Math.log(x): x = f * 2^k with f between 1/sqrt(2) and sqrt(2), and
\* ln f = 2 s (1 + s^2/3 + s^4/5 + ...) for s = (f - 1) / (f + 1)
MathLog(x) ==
    IF IsNaN(x) \/ (x.neg /\ ~IsZero(x)) THEN NumberNaN
    ELSE IF IsZero(x) THEN Signed(TRUE, FloatInfinity)
    ELSE IF ~IsFinite(x) THEN x
    ELSE LogHalf(Signed(FALSE, Float(x.mag.m, -MantissaBits)), x.mag.e + MantissaBits)

-----------------------------------------------------------------------------
(* statistics.ts: factorial, permutations, combinations *)

\* if (n > 170) return Infinity
LargestFactorial == 170

One == FloatFromInt(1)

\* throw new Error(message)
Thrown(message) == [t |-> "thrown", message |-> message]

\* the arguments the calls are run on: the integers from -1 to MaxN, and
\* for factorial also the first n above LargestFactorial
Arguments == -1..MaxN

FactorialArguments == Arguments \cup {LargestFactorial + 1}

\* a comparison that is never true
Negative_Never(x) == FALSE

\* x < 0
Negative(x) == Less(x, Number(0))

\* Number.isInteger(x)
NumberIsInteger(x) == IsFinite(x) /\ IsInteger(x.mag)

\* if (n < 0 || !Number.isInteger(n))
FactorialGuard(x) == Negative(x) \/ ~NumberIsInteger(x)

\* if (n < 0 || r < 0 || !Number.isInteger(n) || !Number.isInteger(r))
PairGuard(x, y) == Negative(x) \/ Negative(y) \/ ~NumberIsInteger(x) \/ ~NumberIsInteger(y)

\* what factorial does in front of its loop; NoResult when the loop is entered
FactorialEntry(n) ==
    IF FactorialGuard(Number(n)) THEN Thrown("Factorial requires a non-negative integer")
    ELSE IF n = 0 \/ n = 1 THEN Returned(One)
    ELSE IF n > LargestFactorial THEN Returned(FloatInfinity)
    ELSE NoResult

\* result *= i
FactorialStep(acc, i) == FloatTimesInt(acc, i)

RECURSIVE FactorialLoop(_, _, _)
\* for (let i = 2; i <= n; i++) result *= i, from the turn of index i on
\* (an infinite product stays infinite)
FactorialLoop(n, i, acc) ==
    IF i > n THEN acc
    ELSE LET next == FactorialStep(acc, i)
         IN  IF next.cls = "Infinity" THEN next ELSE FactorialLoop(n, i + 1, next)

factorial(n) ==
    IF FactorialEntry(n) # NoResult THEN FactorialEntry(n)
    ELSE Returned(FactorialLoop(n, 2, One))

\* what permutations does in front of its loop
PermutationsEntry(n, r) ==
    IF PairGuard(Number(n), Number(r)) THEN Thrown("nPr requires non-negative integers")
    ELSE IF r > n THEN Returned(FloatZero)
    ELSE IF r = 0 THEN Returned(One)
    ELSE NoResult

\* result *= i
PermutationsStep(acc, i) == FloatTimesInt(acc, i)

RECURSIVE PermutationsLoop(_, _, _, _)
\* for (let i = n; i > n - r; i--) result *= i, from the turn of index i on
PermutationsLoop(n, r, i, acc) ==
    IF ~(i > n - r) THEN acc
    ELSE LET next == PermutationsStep(acc, i)
         IN  IF next.cls = "Infinity" THEN next ELSE PermutationsLoop(n, r, i - 1, next)

permutations(n, r) ==
    IF PermutationsEntry(n, r) # NoResult THEN PermutationsEntry(n, r)
    ELSE Returned(PermutationsLoop(n, r, n, One))

\* what combinations does in front of its loop
CombinationsEntry(n, r) ==
    IF PairGuard(Number(n), Number(r)) THEN Thrown("nCr requires non-negative integers")
    ELSE IF r > n THEN Returned(FloatZero)
    ELSE IF r = 0 \/ r = n THEN Returned(One)
    ELSE NoResult

\* the difference taken the wrong way round
CombinationsK_SwappedDifference(n, r) == IF r > n - r THEN r - n ELSE r

\* const k = r > n - r ? n - r : r
CombinationsK(n, r) == IF r > n - r THEN n - r ELSE r

\* result = (result * (n - i)) / (i + 1)
CombinationsStep(acc, n, i) == FloatDivInt(FloatTimesInt(acc, n - i), i + 1)

RECURSIVE CombinationsLoop(_, _, _, _)
\* for (let i = 0; i < k; i++) ..., from the turn of index i on
CombinationsLoop(n, k, i, acc) ==
    IF ~(i < k) THEN acc
    ELSE LET next == CombinationsStep(acc, n, i)
         IN  IF next.cls = "Infinity" THEN next ELSE CombinationsLoop(n, k, i + 1, next)

combinations(n, r) ==
    IF CombinationsEntry(n, r) # NoResult THEN CombinationsEntry(n, r)
    ELSE Returned(MathRound(CombinationsLoop(n, CombinationsK(n, r), 0, One)))

\* The three functions run turn by turn: pc is "call" at the call, "loop"
\* between two turns of the for loop and "returned" after the return or
\* the throw; frame holds the locals k, i and result.

CombInit ==
    /\ call \in {"factorial", "permutations", "combinations"}
    /\ args \in [n : FactorialArguments, r : Arguments]
    /\ call = "factorial" => args.r = 0
    /\ call # "factorial" => args.n \in Arguments
    /\ pc = "call"
    /\ frame = NoFrame
    /\ result = NoResult
    /\ raised = FALSE
    /\ count = 0
    /\ expression = ""
    /\ processed = ""
    /\ angleUnit = "rad"
    /\ scope = EmptyScope
    /\ raw = NotEvaluated
    /\ applied = {}

\* the return or throw in front of the loop, or the entry into the loop
\* with the locals k, i and result
Enter(early, k, i) ==
    /\ pc = "call"
    /\ IF early # NoResult
       THEN /\ result' = early
            /\ raised' = (early.t = "thrown")
            /\ pc' = "returned"
            /\ frame' = frame
       ELSE /\ frame' = [k |-> k, i |-> i, result |-> One]
            /\ pc' = "loop"
            /\ UNCHANGED <<result, raised>>
    /\ UNCHANGED <<args, call, count, textVars, angleUnit, scope, raw, applied>>

\* one turn of the loop: the new result and the new index
Turn(acc, i) ==
    /\ pc = "loop"
    /\ frame' = [frame EXCEPT !.result = acc, !.i = i]
    /\ UNCHANGED <<args, call, pc, count, textVars, evalVars>>

\* the return after the loop
Leave(value) ==
    /\ pc = "loop"
    /\ result' = Returned(value)
    /\ pc' = "returned"
    /\ UNCHANGED <<combVars, call, count, textVars, angleUnit, scope, raw, applied, raised>>

FactorialCall ==
    /\ call = "factorial"
    /\ Enter(FactorialEntry(args.n), 0, 2)

FactorialTurn ==
    /\ call = "factorial"
    /\ pc = "loop"
    /\ frame.i <= args.n
    /\ Turn(FactorialStep(frame.result, frame.i), frame.i + 1)

FactorialReturn ==
    /\ call = "factorial"
    /\ pc = "loop"
    /\ ~(frame.i <= args.n)
    /\ Leave(frame.result)

PermutationsCall ==
    /\ call = "permutations"
    /\ Enter(PermutationsEntry(args.n, args.r), 0, args.n)

PermutationsTurn ==
    /\ call = "permutations"
    /\ pc = "loop"
    /\ frame.i > args.n - args.r
    /\ Turn(PermutationsStep(frame.result, frame.i), frame.i - 1)

PermutationsReturn ==
    /\ call = "permutations"
    /\ pc = "loop"
    /\ ~(frame.i > args.n - args.r)
    /\ Leave(frame.result)

CombinationsCall ==
    /\ call = "combinations"
    /\ Enter(CombinationsEntry(args.n, args.r), CombinationsK(args.n, args.r), 0)

CombinationsTurn ==
    /\ call = "combinations"
    /\ pc = "loop"
    /\ frame.i < frame.k
    /\ Turn(CombinationsStep(frame.result, args.n, frame.i), frame.i + 1)

\* return Math.round(result)
CombinationsReturn ==
    /\ call = "combinations"
    /\ pc = "loop"
    /\ ~(frame.i < frame.k)
    /\ Leave(MathRound(frame.result))

CombNext ==
    \/ FactorialCall
    \/ FactorialTurn
    \/ FactorialReturn
    \/ PermutationsCall
    \/ PermutationsTurn
    \/ PermutationsReturn
    \/ CombinationsCall
    \/ CombinationsTurn
    \/ CombinationsReturn

SpecComb == CombInit /\ [][CombNext]_vars

-----------------------------------------------------------------------------
(* statistics.ts: normalCDF and normalInverseCDF *)

\* Constants for approximation
a1 == Literal(0, 254829592, 9)

a2 == Negate(Literal(0, 284496736, 9))

a3 == Literal(14, 21413741, 9)

a4 == Negate(Literal(14, 53152027, 9))

a5 == Literal(10, 61405429, 9)

p == Literal(0, 3275911, 7)

\* (((c1 * x + c2) * x + c3) * x + ...): Horner's rule as the source writes it
RECURSIVE Horner(_, _, _, _)
Horner(coefficients, x, j, acc) ==
    IF j > Len(coefficients) \/ IsNaN(acc) THEN acc
    ELSE Horner(coefficients, x, j + 1, Add(Mul(acc, x), coefficients[j]))

\* const sign = z < 0 ? -1 : 1
SignOf(z) == IF Less(z, Number(0)) THEN Number(-1) ELSE Number(1)

\* const y, return 0.5 * (1.0 + sign * y)
CDFOfT(z, t) ==
    Mul(Literal(0, 5, 1),
        Add(Number(1),
            Mul(SignOf(z),
                Sub(Number(1),
                    Mul(Mul(Horner(<<a4, a3, a2, a1>>, t, 1, a5), t),
                        MathExp(Div(Mul(Negate(MathAbs(z)), MathAbs(z)), Number(2))))))))

\* const absZ, const t = 1.0 / (1.0 + p * absZ)
CDFOfZ(z) == CDFOfT(z, Div(Number(1), Add(Number(1), Mul(p, MathAbs(z)))))

\* normalCDF(x, mean, stdDev)
normalCDF(x, mean, stdDev) == CDFOfZ(Div(Sub(x, mean), stdDev))

\* const a, b, c, d: the coefficients of the rational approximations
InverseA ==
    << Negate(Literal(39696830, 28665376, 14)), Literal(22094609, 84245205, 13),
       Negate(Literal(27592851, 4469687, 13)), Literal(13835775, 18672690, 13),
       Negate(Literal(30664798, 6614716, 14)), Literal(25066282, 77459239, 15) >>

InverseB ==
    << Negate(Literal(54476098, 79822406, 14)), Literal(16158583, 68580409, 13),
       Negate(Literal(15569897, 98598866, 13)), Literal(66801311, 88771972, 14),
       Negate(Literal(13280681, 55288572, 14)) >>

InverseC ==
    << Negate(Literal(77848940, 2430293, 18)), Negate(Literal(32239645, 80411365, 16)),
       Negate(Literal(24007582, 77161838, 15)), Negate(Literal(25497325, 39343734, 15)),
       Literal(43746641, 41464968, 15), Literal(29381639, 82698783, 15) >>

InverseD ==
    << Literal(77846957, 9041462, 18), Literal(32246712, 90700398, 16),
       Literal(24451341, 37142996, 15), Literal(37544086, 61907416, 15) >>

pLow == Literal(0, 2425, 5)

pHigh == Sub(Number(1), pLow)

\* if (p <= 0 || p >= 1) throw
InverseGuard(prob) == LessEq(prob, Number(0)) \/ LessEq(Number(1), prob)

\* the quotient of the lower region
TailQuotient(q) ==
    Div(Horner(Tail(InverseC), q, 1, InverseC[1]),
        Horner(Tail(InverseD) \o <<Number(1)>>, q, 1, InverseD[1]))

\* the quotient of the central region
CentralQuotient(q, r) ==
    Div(Mul(Horner(Tail(InverseA), r, 1, InverseA[1]), q),
        Horner(Tail(InverseB) \o <<Number(1)>>, r, 1, InverseB[1]))

\* the central region with const q = p - 0.5, const r = q * q
Central(q) == CentralQuotient(q, Mul(q, q))

\* const q = Math.sqrt(-2 * Math.log(p)) of the lower region, of 1 - p in
\* the upper region
TailArgument(prob) == MathSqrt(Mul(Number(-2), MathLog(prob)))

\* let z, after the three regions; -(n) / d of the upper region is -(n / d)
InverseZ(prob) ==
    IF Less(prob, pLow) THEN TailQuotient(TailArgument(prob))
    ELSE IF LessEq(prob, pHigh) THEN Central(Sub(prob, Literal(0, 5, 1)))
    ELSE Negate(TailQuotient(TailArgument(Sub(Number(1), prob))))

\* normalInverseCDF(p, mean, stdDev)
normalInverseCDF(prob, mean, stdDev) ==
    IF InverseGuard(prob)
    THEN Thrown("Probability must be between 0 and 1 (exclusive)")
    ELSE Returned(Add(Mul(InverseZ(prob), stdDev), mean))

\* normalInverseCDF as one step: the throw of the guard or the return
InverseCall ==
    /\ call = "normalInverseCDF"
    /\ pc = "call"
    /\ result' = normalInverseCDF(args.p, args.mean, args.stdDev)
    /\ raised' = InverseGuard(args.p)
    /\ pc' = "returned"
    /\ UNCHANGED <<combVars, call, count, textVars, angleUnit, scope, raw, applied>>

\* The domain checks: the calls run on numbers inside and outside the
\* domain, each call as one step.  The integers of the combinatorics above
\* are the numbers that passed the guard.

RECURSIVE IntegerOfBig(_)
IntegerOfBig(a) == IF a = <<>> THEN 0 ELSE a[1] + LimbBase * IntegerOfBig(Tail(a))

\* the integer a number that passed the guard is
IntegerOf(x) ==
    IF x.neg THEN -IntegerOfBig(BigOfFloat(x.mag)) ELSE IntegerOfBig(BigOfFloat(x.mag))

\* factorial(n) for any number n
factorialOf(x) ==
    IF FactorialGuard(x) THEN Thrown("Factorial requires a non-negative integer")
    ELSE factorial(IntegerOf(x))

\* permutations(n, r) for any numbers n and r
permutationsOf(x, y) ==
    IF PairGuard(x, y) THEN Thrown("nPr requires non-negative integers")
    ELSE permutations(IntegerOf(x), IntegerOf(y))

\* combinations(n, r) for any numbers n and r
combinationsOf(x, y) ==
    IF PairGuard(x, y) THEN Thrown("nCr requires non-negative integers")
    ELSE combinations(IntegerOf(x), IntegerOf(y))

\* the numbers 2.5, -0.5, NaN, Infinity and -Infinity
NonIntegers ==
    { Literal(0, 25, 1), Negate(Literal(0, 5, 1)), NumberNaN, NumberInfinity,
      Signed(TRUE, FloatInfinity) }

DomainArguments == {Number(v) : v \in -2..MaxDomainN} \cup NonIntegers

\* -1, 0, -1e-9, 1e-9, 0.001, 0.5, 0.999, 1 - 1e-9, 1, 1 + 1e-9, 2,
\* Infinity, -Infinity, NaN
DomainProbabilities ==
    { Number(-1), Number(0), Negate(Literal(0, 1, 9)), Literal(0, 1, 9),
      Literal(0, 1, 3), Literal(0, 5, 1), Literal(0, 999, 3),
      Literal(9, 99999999, 10), Number(1), Literal(10, 1, 9), Number(2),
      NumberInfinity, Signed(TRUE, FloatInfinity), NumberNaN }

DomainInit ==
    /\ call \in {"factorial", "permutations", "combinations", "normalInverseCDF"}
    /\ \/ /\ call = "factorial"
          /\ args \in [n : DomainArguments, r : {Number(0)}]
       \/ /\ call \in {"permutations", "combinations"}
          /\ args \in [n : DomainArguments, r : DomainArguments]
       \/ /\ call = "normalInverseCDF"
          /\ args \in [p : DomainProbabilities, mean : {Number(0)}, stdDev : {Number(1)}]
    /\ pc = "call"
    /\ frame = NoFrame
    /\ result = NoResult
    /\ raised = FALSE
    /\ count = 0
    /\ expression = ""
    /\ processed = ""
    /\ angleUnit = "rad"
    /\ scope = EmptyScope
    /\ raw = NotEvaluated
    /\ applied = {}

\* a call as one step: its return or its throw
Call(outcome) ==
    /\ pc = "call"
    /\ result' = outcome
    /\ raised' = (outcome.t = "thrown")
    /\ pc' = "returned"
    /\ UNCHANGED <<combVars, call, count, textVars, angleUnit, scope, raw, applied>>

DomainFactorial ==
    /\ call = "factorial"
    /\ Call(factorialOf(args.n))

DomainPermutations ==
    /\ call = "permutations"
    /\ Call(permutationsOf(args.n, args.r))

DomainCombinations ==
    /\ call = "combinations"
    /\ Call(combinationsOf(args.n, args.r))

DomainNext ==
    \/ DomainFactorial
    \/ DomainPermutations
    \/ DomainCombinations
    \/ InverseCall

SpecDomain == DomainInit /\ [][DomainNext]_vars

-----------------------------------------------------------------------------
(* statistics.ts: calculateMean .. calculateStatistics                     *)
(*                                                                         *)
(* A dataset is a sequence of numbers.  The caller's array is args.values; *)
(* a function that copies it works on the copy in frame.                   *)

Zero == Number(0)

\* the values the datasets are made of
StatValues == {Negate(Literal(0, 15, 1)), Zero, Number(2)}

RECURSIVE SequencesUpTo(_, _)
\* the sequences over S of up to k elements
SequencesUpTo(S, k) ==
    IF k = 0 THEN {<<>>}
    ELSE LET shorter == SequencesUpTo(S, k - 1)
         IN  shorter \cup {Append(q, v) : q \in {w \in shorter : Len(w) = k - 1}, v \in S}

Datasets == SequencesUpTo(StatValues, MaxValues)

RECURSIVE Reduce(_, _, _)
\* values.reduce((sum, val) => sum + val, 0), from element j on
Reduce(values, j, sum) ==
    IF j > Len(values) \/ IsNaN(sum) THEN sum
    ELSE Reduce(values, j + 1, Add(sum, values[j]))

\* calculateSum(values)
calculateSum(values) == Reduce(values, 1, Zero)

\* calculateMean(values)
calculateMean(values) ==
    IF Len(values) = 0 THEN Zero
    ELSE Div(Reduce(values, 1, Zero), Number(Len(values)))

\* the comparator (a, b) => a - b puts a in front of b
Before(a, b) == Less(Sub(a, b), Zero)

RECURSIVE InsertSorted(_, _, _)
\* v put into the ascending sequence, behind the elements that are not
\* above it
InsertSorted(sorted, v, j) ==
    IF j > Len(sorted) THEN Append(sorted, v)
    ELSE IF Before(v, sorted[j])
    THEN SubSeq(sorted, 1, j - 1) \o <<v>> \o SubSeq(sorted, j, Len(sorted))
    ELSE InsertSorted(sorted, v, j + 1)

RECURSIVE SortAscending(_, _, _)
\* Array.prototype.sort((a, b) => a - b): stable, ascending
SortAscending(values, j, sorted) ==
    IF j > Len(values) THEN sorted
    ELSE SortAscending(values, j + 1, InsertSorted(sorted, values[j], 1))

\* [...values].sort(...): an array that is sorted in place is the array
\* sort returns; the caller's array is another one
CopySorted_InPlace(values) ==
    [input |-> SortAscending(values, 1, <<>>), sorted |-> SortAscending(values, 1, <<>>)]

CopySorted(values) ==
    [input |-> values, sorted |-> SortAscending(values, 1, <<>>)]

\* the return of calculateMedian from the sorted copy
MedianOfSorted(sorted) ==
    IF Len(sorted) % 2 = 0
    THEN Div(Add(sorted[Len(sorted) \div 2], sorted[Len(sorted) \div 2 + 1]), Number(2))
    ELSE sorted[Len(sorted) \div 2 + 1]

\* calculateMedian(values)
calculateMedian(values) ==
    IF Len(values) = 0 THEN Zero ELSE MedianOfSorted(CopySorted(values).sorted)

\* counts.get(value): the occurrences of a key in the values 1..j
CountUpTo(values, v, j) == Cardinality({i \in 1..j : Same(values[i], v)})

\* the keys of the Map in the order of their insertion
MapKeys(values) ==
    SelectSeq([j \in 1..Len(values) |-> [at |-> j, value |-> values[j]]],
              LAMBDA e : CountUpTo(values, e.value, e.at) = 1)

\* let maxCount after the loop
MaxCount(values) ==
    CHOOSE c \in 0..Len(values) :
        /\ \A v \in {values[j] : j \in 1..Len(values)} : CountUpTo(values, v, Len(values)) <= c
        /\ c = 0 \/ \E j \in 1..Len(values) : CountUpTo(values, values[j], Len(values)) = c

\* if (maxCount === 1 && values.length > 1) return []
NoMode_Never(values) == FALSE

NoMode(values) == MaxCount(values) = 1 /\ Len(values) > 1

\* const modes, before the sort
ModesOf(values) ==
    LET kept == SelectSeq(MapKeys(values),
                          LAMBDA e : CountUpTo(values, e.value, Len(values)) = MaxCount(values))
    IN  [j \in 1..Len(kept) |-> kept[j].value]

\* calculateMode(values)
calculateMode(values) ==
    IF Len(values) = 0 \/ NoMode(values) THEN <<>>
    ELSE SortAscending(ModesOf(values), 1, <<>>)

RECURSIVE SquaredDiffs(_, _, _, _)
\* values.map((val) => Math.pow(val - mean, 2)).reduce(...), from j on
SquaredDiffs(values, mean, j, sum) ==
    IF j > Len(values) \/ IsNaN(sum) THEN sum
    ELSE SquaredDiffs(values, mean, j + 1,
                      Add(sum, Mul(Sub(values[j], mean), Sub(values[j], mean))))

\* calculateVariance(values)
calculateVariance(values) ==
    IF Len(values) = 0 THEN Zero
    ELSE Div(SquaredDiffs(values, calculateMean(values), 1, Zero), Number(Len(values)))

\* calculateSampleVariance(values)
calculateSampleVariance(values) ==
    IF Len(values) <= 1 THEN Zero
    ELSE Div(SquaredDiffs(values, calculateMean(values), 1, Zero), Number(Len(values) - 1))

\* calculateStdDev(values)
calculateStdDev(values) == MathSqrt(calculateVariance(values))

\* calculateSampleStdDev(values)
calculateSampleStdDev(values) == MathSqrt(calculateSampleVariance(values))

\* values.length
CountOf_PlusOne(values) == Len(values) + 1

CountOf(values) == Len(values)

\* calculateStatistics(values)
calculateStatistics(values) ==
    [values   |-> values,
     mean     |-> calculateMean(values),
     median   |-> calculateMedian(values),
     mode     |-> calculateMode(values),
     stdDev   |-> calculateStdDev(values),
     variance |-> calculateVariance(values),
     sum      |-> calculateSum(values),
     count    |-> CountOf(values)]

StatCalls ==
    {"calculateMean", "calculateMedian", "calculateMode", "calculateVariance",
     "calculateSampleVariance", "calculateStdDev", "calculateSampleStdDev",
     "calculateSum", "calculateStatistics"}

\* a call of one of the functions on a dataset
StatInit ==
    /\ call \in StatCalls
    /\ args \in [values : Datasets]
    /\ pc = "call"
    /\ frame = NoFrame
    /\ result = NoResult
    /\ raised = FALSE
    /\ count = 0
    /\ expression = ""
    /\ processed = ""
    /\ angleUnit = "rad"
    /\ scope = EmptyScope
    /\ raw = NotEvaluated
    /\ applied = {}

\* the call returns: no function of the module throws on a dataset
StatStep ==
    /\ pc = "call"
    /\ pc' = "returned"
    /\ raised' = FALSE
    /\ UNCHANGED <<call, count, textVars, angleUnit, scope, raw, applied>>

\* a function that works on the values as they are and returns
StatReturn(name, value) ==
    /\ call = name
    /\ StatStep
    /\ frame' = frame
    /\ args' = args
    /\ result' = Returned(value)

StatMean == StatReturn("calculateMean", calculateMean(args.values))

StatMode == StatReturn("calculateMode", calculateMode(args.values))

StatVariance == StatReturn("calculateVariance", calculateVariance(args.values))

StatSampleVariance ==
    StatReturn("calculateSampleVariance", calculateSampleVariance(args.values))

StatStdDev == StatReturn("calculateStdDev", calculateStdDev(args.values))

StatSampleStdDev == StatReturn("calculateSampleStdDev", calculateSampleStdDev(args.values))

StatSum == StatReturn("calculateSum", calculateSum(args.values))

\* calculateMedian: the copy is sorted, the caller's array is what the
\* sort leaves of it
StatMedian ==
    /\ call = "calculateMedian"
    /\ StatStep
    /\ IF Len(args.values) = 0
       THEN /\ frame' = frame
            /\ args' = args
            /\ result' = Returned(Zero)
       ELSE /\ frame' = [sorted |-> CopySorted(args.values).sorted]
            /\ args' = [values |-> CopySorted(args.values).input]
            /\ result' = Returned(MedianOfSorted(CopySorted(args.values).sorted))

StatStatistics == StatReturn("calculateStatistics", calculateStatistics(args.values))

StatNext ==
    \/ StatMean
    \/ StatMedian
    \/ StatMode
    \/ StatVariance
    \/ StatSampleVariance
    \/ StatStdDev
    \/ StatSampleStdDev
    \/ StatSum
    \/ StatStatistics

SpecStat == StatInit /\ [][StatNext]_vars

-----------------------------------------------------------------------------
(* statistics.ts: normalCDF(normalInverseCDF(p))                           *)

\* the probabilities of the round trip: a grid and points of both tails
RoundProbabilities ==
    {Div(Number(k), Number(RoundSteps)) : k \in 1..(RoundSteps - 1)}
        \cup {Literal(0, 1, 3), Literal(0, 1, 2), Literal(0, 2, 2),
              Literal(0, 98, 2), Literal(0, 99, 2), Literal(0, 999, 3)}

RoundInit ==
    /\ call = "roundTrip"
    /\ args \in [p : RoundProbabilities, mean : {Zero}, stdDev : {Number(1)}]
    /\ pc = "inverse"
    /\ frame = NoFrame
    /\ result = NoResult
    /\ raised = FALSE
    /\ count = 0
    /\ expression = ""
    /\ processed = ""
    /\ angleUnit = "rad"
    /\ scope = EmptyScope
    /\ raw = NotEvaluated
    /\ applied = {}

\* const z = normalInverseCDF(p)
RoundInverse ==
    /\ pc = "inverse"
    /\ frame' = [z |-> normalInverseCDF(args.p, args.mean, args.stdDev)]
    /\ pc' = "forward"
    /\ UNCHANGED <<args, result, raised, call, count, textVars, angleUnit, scope, raw, applied>>

\* normalCDF(z)
RoundForward ==
    /\ pc = "forward"
    /\ frame.z.t = "returned"
    /\ result' = Returned(normalCDF(frame.z.value, args.mean, args.stdDev))
    /\ pc' = "returned"
    /\ UNCHANGED <<args, frame, raised, call, count, textVars, angleUnit, scope, raw, applied>>

RoundNext ==
    \/ RoundInverse
    \/ RoundForward

SpecRound == RoundInit /\ [][RoundNext]_vars

-----------------------------------------------------------------------------
(* statistics.ts: parseDataInput                                           *)
(*                                                                         *)
(* A parsed number is the decimal it was read from: the record of its      *)
(* sign, of its coefficient without trailing zeros and of its power of     *)
(* ten.  Two numerals of the inputs below name the same double exactly     *)
(* when they give the same record.                                         *)

\* [,\s;]
IsDelimiter(c) == c \in {",", ";"} \/ IsSpace(c)

RECURSIVE SplitFrom(_, _, _)
\* the maximal runs of characters that are no delimiters, from index i on,
\* token being the run that is open
SplitFrom(s, i, token) ==
    IF i > Len(s) THEN (IF token = "" THEN <<>> ELSE <<token>>)
    ELSE IF IsDelimiter(CharAt(s, i))
         THEN (IF token = "" THEN <<>> ELSE <<token>>) \o SplitFrom(s, i + 1, "")
         ELSE SplitFrom(s, i + 1, token \o CharAt(s, i))

\* input.split(/[,\s;]+/).filter((s) => s.trim().length > 0)
SplitParts(input) == SplitFrom(input, 1, "")

DigitValue(c) ==
    CASE c = "0" -> 0 [] c = "1" -> 1 [] c = "2" -> 2 [] c = "3" -> 3
      [] c = "4" -> 4 [] c = "5" -> 5 [] c = "6" -> 6 [] c = "7" -> 7
      [] c = "8" -> 8 [] c = "9" -> 9

RECURSIVE DigitsValue(_, _, _, _)
\* the number the digits of s from index i to index j - 1 spell, after acc
DigitsValue(s, i, j, acc) ==
    IF i >= j THEN acc
    ELSE DigitsValue(s, i + 1, j, 10 * acc + DigitValue(CharAt(s, i)))

IsSign(s, i) == i <= Len(s) /\ CharAt(s, i) \in {"+", "-"}

\* the index after an optional sign at index i
AfterSign(s, i) == IF IsSign(s, i) THEN i + 1 ELSE i

\* the index after the mantissa that starts at index i: digits, then a
\* point and digits, or a point and at least one digit; i for no mantissa
MantissaEnd(s, i) ==
    LET j == DigitsEnd(s, i)
        k == IF j <= Len(s) /\ CharAt(s, j) = "." THEN DigitsEnd(s, j + 1)
             ELSE j
    IN  IF j = i /\ k = j + 1 THEN i ELSE k

\* the index after the exponent part that starts at index k: e or E, an
\* optional sign and at least one digit; k for no exponent part
ExponentEnd(s, k) ==
    IF k <= Len(s) /\ CharAt(s, k) \in {"e", "E"}
    THEN LET d == AfterSign(s, k + 1)
         IN  IF DigitsEnd(s, d) > d THEN DigitsEnd(s, d) ELSE k
    ELSE k

RECURSIVE Normalized(_, _, _)
\* the decimal coeff * 10^exp without trailing zeros
Normalized(neg, coeff, exp) ==
    IF coeff = 0 THEN [t |-> "number", neg |-> neg, coeff |-> 0, exp |-> 0]
    ELSE IF coeff % 10 = 0 THEN Normalized(neg, coeff \div 10, exp + 1)
    ELSE [t |-> "number", neg |-> neg, coeff |-> coeff, exp |-> exp]

ParsedNaN == [t |-> "NaN"]

ParsedInfinity(neg) == [t |-> "Infinity", neg |-> neg]

RECURSIVE DigitCount(_)
DigitCount(v) == IF v < 10 THEN 1 ELSE 1 + DigitCount(v \div 10)

\* the decimal is above Number.MAX_VALUE, 1.797...e308, and reads as Infinity
\* (the coefficients of the inputs have at most three digits)
Overflows(d) ==
    LET top == DigitCount(d.coeff) + d.exp
    IN  /\ d.coeff # 0
        /\ \/ top > 309
           \/ top = 309 /\ d.coeff * 10^(3 - DigitCount(d.coeff)) > 179

\* the decimal literal of s from index i (after the sign) to its end k
DecimalOf(s, neg, i, k) ==
    LET j    == DigitsEnd(s, i)
        m    == MantissaEnd(s, i)
        frac == IF m > j THEN m - j - 1 ELSE 0
        int  == DigitsValue(s, i, j, 0)
        co   == DigitsValue(s, j + 1, m, int)
        d    == AfterSign(s, m + 1)
        ex   == IF k > m THEN DigitsValue(s, d, k, 0) ELSE 0
        sx   == IF k > m /\ CharAt(s, m + 1) = "-" THEN 0 - ex ELSE ex
        dec  == Normalized(neg, co, sx - frac)
    IN  IF Overflows(dec) THEN ParsedInfinity(neg) ELSE dec

\* the length of the longest prefix of s that is a numeric literal, 0 for none
NumericPrefix(s) ==
    LET i == AfterSign(s, 1)
        m == MantissaEnd(s, i)
    IN  IF OccursAt(s, "Infinity", i) THEN i + 7
        ELSE IF m = i THEN 0
        ELSE ExponentEnd(s, m) - 1

\* parseFloat(s) of a text without white space: the value of the longest
\* prefix that is a numeric literal, NaN when there is none
parseFloat(s) ==
    LET i == AfterSign(s, 1)
        neg == IsSign(s, 1) /\ CharAt(s, 1) = "-"
    IN  IF NumericPrefix(s) = 0 THEN ParsedNaN
        ELSE IF OccursAt(s, "Infinity", i) THEN ParsedInfinity(neg)
        ELSE DecimalOf(s, neg, i, NumericPrefix(s) + 1)

\* !Number.isNaN(num) && Number.isFinite(num)
Pushed(num) == num.t = "number"

\* the inputs parseDataInput is run on
InputPieces ==
    {"1", "20", ".", "5", "-", "abc", "x", "e2", "e400", "Infinity", ",", " ",
     ";", "\n"}

ParseInit ==
    /\ expression \in TextsOf(InputPieces, MaxInputPieces)
    /\ call = "parseDataInput"
    /\ pc = "split"
    /\ frame = NoFrame
    /\ args = NoArguments
    /\ result = NoResult
    /\ raised = FALSE
    /\ count = 0
    /\ processed = ""
    /\ angleUnit = "rad"
    /\ scope = EmptyScope
    /\ raw = NotEvaluated
    /\ applied = {}

\* const parts = ...; const values: number[] = [];
ParseSplit ==
    /\ pc = "split"
    /\ frame' = [parts |-> SplitParts(expression), values |-> <<>>, i |-> 1]
    /\ pc' = "loop"
    /\ UNCHANGED <<call, count, textVars, evalVars, args>>

\* one turn of for (const part of parts)
ParseTurn ==
    /\ pc = "loop"
    /\ frame.i <= Len(frame.parts)
    /\ frame' =
          [frame EXCEPT
             !.i = @ + 1,
             !.values = IF Pushed(parseFloat(frame.parts[frame.i]))
                        THEN Append(@, parseFloat(frame.parts[frame.i]))
                        ELSE @]
    /\ UNCHANGED <<call, pc, count, textVars, evalVars, args>>

\* return values;
ParseReturn ==
    /\ pc = "loop"
    /\ frame.i > Len(frame.parts)
    /\ result' = Returned(frame.values)
    /\ pc' = "returned"
    /\ UNCHANGED <<call, count, textVars, angleUnit, scope, raw, applied,
                   raised, args, frame>>

ParseNext ==
    \/ ParseSplit
    \/ ParseTurn
    \/ ParseReturn

SpecParse == ParseInit /\ [][ParseNext]_vars

-----------------------------------------------------------------------------
(* graphing.ts: evaluateFunction                                           *)
(*                                                                         *)
(* The call keeps its arguments in args; expression is the text it hands   *)
(* to evaluate, result what evaluate returned and frame.returns what the   *)
(* call itself returned.                                                   *)

\* /\bx\b/i matches the character at index i
WholeWordXAt(s, i) ==
    /\ CharAt(s, i) \in {"x", "X"}
    /\ WordBoundary(s, i)
    /\ WordBoundary(s, i + 1)

RECURSIVE SubstituteFrom(_, _, _)
SubstituteFrom(s, rep, i) ==
    IF i > Len(s) THEN ""
    ELSE IF WholeWordXAt(s, i) THEN rep \o SubstituteFrom(s, rep, i + 1)
    ELSE CharAt(s, i) \o SubstituteFrom(s, rep, i + 1)

\* `(${x})`
LiteralOf(x) == "(" \o numberToString(x) \o ")"

\* expression.replace(/\bx\b/gi, `(${x})`)
SubstituteX(s, x) == SubstituteFrom(s, LiteralOf(x), 1)

\* the text between the parentheses of a text in parentheses
Inside(text) == SubSeq(text, 2, Len(text) - 1)

\* the text is one numeric literal in parentheses
IsLiteral(text) ==
    /\ Len(text) >= 3
    /\ CharAt(text, 1) = "(" /\ CharAt(text, Len(text)) = ")"
    /\ NumericPrefix(Inside(text)) = Len(Inside(text))
    /\ parseFloat(Inside(text)).t = "number"

\* the number a numeric literal with one significant digit denotes
ValueOfLiteral(text) ==
    LET d == parseFloat(Inside(text))
    IN  Num(IF d.neg THEN 0 - d.coeff ELSE d.coeff, d.exp)

\* math.evaluate on the texts of the graph: a numeric literal evaluates to
\* its number and 1/(0) to Infinity; any other text is left to math.js
graphMathEvaluate(text) ==
    IF text = "1/(0)" THEN {PosInfinity}
    ELSE IF IsLiteral(text) THEN {ValueOfLiteral(text)}
    ELSE mathEvaluate(text)

Null == [t |-> "null"]

\* the function returns whatever number the evaluation gave
functionValue_NoFiniteCheck(res, o) ==
    IF res.success /\ o.t = "number" THEN res.value ELSE Null

\* if (result.success && typeof result.value === 'number')
\*   if (Number.isFinite(result.value)) return result.value;
\* return null;
\* (the value of a success is a number exactly when math.evaluate returned one)
functionValue(res, o) ==
    IF res.success /\ o.t = "number" /\ res.value.cls = "finite"
    THEN res.value ELSE Null

\* the x the functions are sampled at
GraphXs ==
    {Num(0, 0), Num(5, 0), Num(-2, 0), Num(5, -1), Num(1, -7), Num(-3, -9),
     Num(1, 21)}

GraphPieces == {"x", "X", "1/", "2", "sin(", ")", " ", "x2", "+", "unknown("}

GraphArguments(e, x) == [expression |-> e, x |-> x]

GraphInit ==
    /\ args \in {GraphArguments(e, x) : e \in TextsOf(GraphPieces, MaxPieces),
                                        x \in GraphXs}
    /\ call = "evaluateFunction"
    /\ pc = "substitute"
    /\ expression = ""
    /\ angleUnit = "rad"
    /\ processed = ""
    /\ scope = EmptyScope
    /\ raw = NotEvaluated
    /\ applied = {}
    /\ result = NoResult
    /\ raised = FALSE
    /\ count = 0
    /\ frame = NoFrame

\* const expr = expression.replace(/\bx\b/gi, `(${x})`); evaluate(expr, 'rad')
GraphSubstitute ==
    /\ pc = "substitute"
    /\ expression' = SubstituteX(args.expression, args.x)
    /\ angleUnit' = "rad"
    /\ pc' = "evaluate"
    /\ UNCHANGED <<combVars, call, count, processed, scope, raw, applied,
                   result, raised>>

\* const result = math.evaluate(processed, scope), inside evaluate
GraphMath ==
    /\ pc = "math"
    /\ call = "evaluateFunction"
    /\ \E o \in graphMathEvaluate(processed) : raw' = o
    /\ applied' = UnitsApplied(processed, scope)
    /\ pc' = "result"
    /\ UNCHANGED <<combVars, call, count, expression, processed, angleUnit,
                   scope, result, raised>>

\* evaluate has returned
GraphReturn ==
    /\ pc = "returned"
    /\ call = "evaluateFunction"
    /\ frame' = [returns |-> functionValue(result, raw)]
    /\ pc' = "done"
    /\ UNCHANGED <<call, count, textVars, evalVars, args>>

GraphNext ==
    \/ GraphSubstitute
    \/ EvalBlank
    \/ EvalPreprocess
    \/ EvalScope
    \/ GraphMath
    \/ EvalReturn
    \/ GraphReturn

SpecGraph == GraphInit /\ [][GraphNext]_vars

-----------------------------------------------------------------------------
(* math-engine.ts: a sequence of evaluate calls                            *)
(*                                                                         *)
(* const math = create(all, ...) is made once, when the module is loaded,  *)
(* and every call of evaluate hands its text to that one instance.         *)
(* frame.math is what the instance holds besides what math.js ships, and   *)
(* frame.log the calls that have returned.  math.js looks a symbol up in   *)
(* the scope first and in the instance next; an assignment writes to the   *)
(* scope, and the functions createUnit and import, which the expression    *)
(* language can call like any other function, write to the instance.       *)

SequenceExpressions ==
    {"sin(90)>0.9", "a=5", "a", "createUnit(\"knot\")", "2 knot", " "}

\* the scope after the assignment a=5
WithAssignment(sc) ==
    [f \in DOMAIN sc \cup {"a"} |-> IF f = "a" THEN "5" ELSE sc[f]]

\* what math.evaluate(text, sc) returns or throws on an instance that holds
\* the names inst
instanceEvaluate(text, sc, inst) ==
    IF text = "sin(90)>0.9"
    THEN [t |-> "boolean", b |-> UnitOfCall("sin", sc) = "deg"]
    ELSE IF text = "a=5" THEN Num(5, 0)
    ELSE IF text = "a"
    THEN IF "a" \in DOMAIN sc \/ "a" \in inst THEN Num(5, 0)
         ELSE [t |-> "throw", message |-> "Undefined symbol a"]
    ELSE IF text = "createUnit(\"knot\")"
    THEN IF "knot" \in inst
         THEN [t |-> "throw",
               message |-> "Cannot create unit \"knot\": a unit with that name already exists"]
         ELSE [t |-> "other", str |-> "knot"]
    ELSE IF text = "2* knot"
    THEN IF "knot" \in inst THEN [t |-> "other", str |-> "2 knot"]
         ELSE [t |-> "throw", message |-> "Undefined symbol knot"]
    ELSE [t |-> "throw", message |-> "Value expected (char 1)"]

\* the scope object after the evaluation
scopeAfter(text, sc) == IF text = "a=5" THEN WithAssignment(sc) ELSE sc

\* an instance that no expression can write to
instanceAfter_Sealed(text, inst) == inst

\* the instance after the evaluation
instanceAfter(text, inst) ==
    IF text = "createUnit(\"knot\")" THEN inst \cup {"knot"} ELSE inst

LoggedCall(e, unit, res) == [expression |-> e, angleUnit |-> unit, result |-> res]

SequenceInit ==
    /\ call = "evaluate"
    /\ pc = "idle"
    /\ args = [made |-> 0]
    /\ frame = [math |-> {}, log |-> {}]
    /\ expression = ""
    /\ angleUnit = "rad"
    /\ processed = ""
    /\ scope = EmptyScope
    /\ raw = NotEvaluated
    /\ applied = {}
    /\ result = NoResult
    /\ raised = FALSE
    /\ count = 0

\* the next call: evaluate(expression, angleUnit)
SequenceCall ==
    /\ pc = "idle"
    /\ args.made < MaxCalls
    /\ args' = [made |-> args.made + 1]
    /\ expression' \in SequenceExpressions
    /\ angleUnit' \in AngleUnits
    /\ processed' = ""
    /\ scope' = EmptyScope
    /\ raw' = NotEvaluated
    /\ applied' = {}
    /\ result' = NoResult
    /\ pc' = "evaluate"
    /\ UNCHANGED <<call, count, raised, frame>>

\* const result = math.evaluate(processed, scope) on the shared instance
SequenceMath ==
    /\ pc = "math"
    /\ DOMAIN frame = {"math", "log"}
    /\ raw' = instanceEvaluate(processed, scope, frame.math)
    /\ scope' = scopeAfter(processed, scope)
    /\ frame' = [frame EXCEPT !.math = instanceAfter(processed, @)]
    /\ applied' = UnitsApplied(processed, scope)
    /\ pc' = "result"
    /\ UNCHANGED <<call, count, expression, processed, angleUnit, result,
                   raised, args>>

\* the call has returned to its caller
SequenceReturn ==
    /\ pc = "returned"
    /\ DOMAIN frame = {"math", "log"}
    /\ frame' = [frame EXCEPT
                   !.log = @ \cup {LoggedCall(expression, angleUnit, result)}]
    /\ pc' = "idle"
    /\ UNCHANGED <<call, count, textVars, evalVars, args>>

SequenceNext ==
    \/ SequenceCall
    \/ EvalBlank
    \/ EvalPreprocess
    \/ EvalScope
    \/ SequenceMath
    \/ EvalReturn
    \/ SequenceReturn

SpecSequence == SequenceInit /\ [][SequenceNext]_vars

-----------------------------------------------------------------------------
(* math-engine.ts: evaluate from the catch clause on                       *)

\* the messages of the errors math.evaluate throws: the patterns of the
\* table with what math.js puts around them, and messages without a pattern
MessagePieces ==
    {"Undefined function", "Unexpected end of expression", "Value expected",
     "Parenthesis ) expected", "Cannot divide by zero", " (char 1)",
     "Undefined symbol x", ": "}

\* the expression is blank, or math.evaluate has thrown or has returned no
\* value
FriendlyInit ==
    /\ \/ /\ expression = " "
          /\ processed = ""
          /\ raw = NotEvaluated
          /\ pc = "evaluate"
       \/ /\ expression = "1/"
          /\ processed = "1/"
          /\ raw \in {[t |-> "throw", message |-> msg] :
                          msg \in TextsOf(MessagePieces, MaxPieces)}
                     \cup {[t |-> "null"], [t |-> "undefined"]}
          /\ pc = "result"
    /\ call = "evaluate"
    /\ angleUnit = "rad"
    /\ scope = EmptyScope
    /\ applied = {}
    /\ result = NoResult
    /\ raised = FALSE
    /\ count = 0
    /\ args = NoArguments
    /\ frame = NoFrame

FriendlyNext ==
    \/ EvalBlank
    \/ EvalReturn

SpecFriendly == FriendlyInit /\ [][FriendlyNext]_vars

-----------------------------------------------------------------------------
(* useHistory.ts: loadHistory, saveHistory and the hook                    *)
(*                                                                         *)
(* args.storage is what localStorage holds under STORAGE_KEY: nothing, a   *)
(* text, or no access at all (getItem and setItem throw).  A text is       *)
(* either no JSON or the JSON value it spells; a number of a JSON value is *)
(* its literal and a number in memory the double the literal reads as.     *)
(* frame is the state of the hook: entries, and dirty when the effect that *)
(* saves the entries has still to run.                                     *)

MAX_ENTRIES == 100

JString(s) == [t |-> "string", s |-> s]

JNumber(lit) == [t |-> "number", lit |-> lit]

JNull == [t |-> "null"]

\* a property the object does not have
JMissing == [t |-> "undefined"]

JObject(id, expr, res, timestamp) ==
    [t |-> "object", id |-> id, expression |-> expr, result |-> res,
     timestamp |-> timestamp]

JArray(items) == [t |-> "array", items |-> items]

NoAccess == [t |-> "denied"]

NoItem == [t |-> "absent"]

\* a stored text that spells the JSON value
StoredText(value) == [t |-> "text", valid |-> TRUE, value |-> value]

\* a stored text that is no JSON, 'not valid json'
StoredGarbage == [t |-> "text", valid |-> FALSE, value |-> JNull]

\* Number.prototype.toString of a whole number below 1e21
WholeNumberText(num) == ToString(num.coeff) \o Zeros(num.exp)

\* JSON.parse of a value: a number literal becomes the double it reads as
Parsed(value) ==
    IF value.t = "number" THEN parseFloat(value.lit) ELSE value

\* the entry the validated element is
EntryOf(el) ==
    [id |-> el.id.s, expression |-> el.expression.s, result |-> el.result.s,
     timestamp |-> Parsed(el.timestamp)]

\* JSON.stringify of an entry: a number that is not finite is written null
StringifyEntry(e) ==
    JObject(JString(e.id), JString(e.expression), JString(e.result),
            IF e.timestamp.t = "number"
            THEN JNumber(WholeNumberText(e.timestamp)) ELSE JNull)

\* JSON.stringify(entries)
Stringify(entries) ==
    StoredText(JArray([j \in 1..Len(entries) |-> StringifyEntry(entries[j])]))

\* a filter that asks for the three strings only
IsHistoryEntry_NoTimestamp(el) ==
    /\ el.t = "object"
    /\ el.id.t = "string"
    /\ el.expression.t = "string"
    /\ el.result.t = "string"

\* typeof entry === 'object' && entry !== null && typeof entry.id === 'string'
\* && ... && typeof entry.timestamp === 'number'
IsHistoryEntry(el) ==
    /\ el.t = "object"
    /\ el.id.t = "string"
    /\ el.expression.t = "string"
    /\ el.result.t = "string"
    /\ el.timestamp.t = "number"

\* parsed.filter(...)
FilterEntries(items) ==
    LET kept == SelectSeq(items, IsHistoryEntry)
    IN  [j \in 1..Len(kept) |-> EntryOf(kept[j])]

\* loadHistory(): what it returns and whether an exception leaves it
loadHistory(storage) ==
    IF storage.t = "denied" THEN [entries |-> <<>>, raised |-> FALSE]
    ELSE IF storage.t = "absent" THEN [entries |-> <<>>, raised |-> FALSE]
    ELSE IF ~storage.valid THEN [entries |-> <<>>, raised |-> FALSE]
    ELSE IF storage.value.t # "array" THEN [entries |-> <<>>, raised |-> FALSE]
    ELSE [entries |-> FilterEntries(storage.value.items), raised |-> FALSE]

\* saveHistory(entries): the storage afterwards; an exception of setItem is
\* caught and logged
saveHistory(storage, entries) ==
    IF storage.t = "denied" THEN storage ELSE Stringify(entries)

\* addEntry without the limit
Added_Unlimited(entry, prev) == <<entry>> \o prev

\* const updated = [entry, ...prev]; updated.slice(0, MAX_ENTRIES) when longer
Added(entry, prev) ==
    IF Len(prev) + 1 > MAX_ENTRIES
    THEN SubSeq(<<entry>> \o prev, 1, MAX_ENTRIES)
    ELSE <<entry>> \o prev

\* prev.filter((entry) => entry.id !== id)
Removed(id, prev) == SelectSeq(prev, LAMBDA entry : entry.id # id)

\* the elements a stored array is written from
StoredEntry(k) ==
    JObject(JString("s" \o ToString(k)), JString("2+2"), JString("4"),
            JNumber(ToString(k)))

StoredElements ==
    {StoredEntry(7), StoredEntry(5),
     JObject(JString("big"), JString("3*3"), JString("9"), JNumber("1e999")),
     JObject(JString("2"), JMissing, JMissing, JMissing),
     JObject(JString("3"), JString("1"), JString("1"), JString("456")),
     JString("not an object"), JNull}

\* the stored array of the k entries s{k}, ..., s1, as the hook saves them
StoredRun(k) == JArray([j \in 1..k |-> StoredEntry(k + 1 - j)])

HistoryStores ==
    {NoAccess, NoItem, StoredGarbage, StoredText(JNull),
     StoredText(JString("[]")), StoredText(StoredEntry(1))}
        \cup {StoredText(JArray(items)) :
                 items \in SequencesUpTo(StoredElements, MaxStored)}
        \cup {StoredText(StoredRun(k)) :
                 k \in (MAX_ENTRIES - 1)..(MAX_ENTRIES + 1)}

\* the entry of the call number k of addEntry: the calculator gives it a
\* new id and the time of the call
NewEntry(k) ==
    [id |-> "n" \o ToString(k), expression |-> "1+1", result |-> "2",
     timestamp |-> Normalized(FALSE, 1000 + k, 0)]

HookState(entries, dirty, op, before) ==
    [entries |-> entries, dirty |-> dirty, op |-> op, before |-> before]

HistoryInit ==
    /\ args \in {[storage |-> st] : st \in HistoryStores}
    /\ frame = HookState(<<>>, FALSE, "none", <<>>)
    /\ call = "useHistory"
    /\ pc = "unmounted"
    /\ count = 0
    /\ raised = FALSE
    /\ result = NoResult
    /\ expression = ""
    /\ processed = ""
    /\ angleUnit = "rad"
    /\ scope = EmptyScope
    /\ raw = NotEvaluated
    /\ applied = {}

\* useState(() => loadHistory()); the effect is due after the first render
HistoryMount ==
    /\ pc = "unmounted"
    /\ frame' = HookState(loadHistory(args.storage).entries, TRUE, "mount", <<>>)
    /\ raised' = loadHistory(args.storage).raised
    /\ pc' = "mounted"
    /\ UNCHANGED <<call, count, textVars, angleUnit, scope, raw, applied,
                   result, args>>

\* one more call on the mounted hook; setEntries makes the effect due
HistoryCall(op, entries) ==
    /\ pc = "mounted"
    /\ count < MaxOperations
    /\ count' = count + 1
    /\ frame' = HookState(entries, TRUE, op, frame.entries)
    /\ UNCHANGED <<call, pc, textVars, evalVars, args>>

HistoryAdd ==
    /\ pc = "mounted"
    /\ HistoryCall("addEntry", Added(NewEntry(count + 1), frame.entries))

\* removeEntry(id) for the id of the first or of the last entry, or an id
\* no entry has
HistoryRemove ==
    /\ pc = "mounted"
    /\ \E id \in {"none"} \cup {frame.entries[j].id :
                                j \in {1, Len(frame.entries)} \cap DOMAIN frame.entries} :
          HistoryCall("removeEntry", Removed(id, frame.entries))

HistoryClear ==
    /\ pc = "mounted"
    /\ HistoryCall("clearHistory", <<>>)

\* useEffect(() => { saveHistory(entries); }, [entries])
HistorySave ==
    /\ pc = "mounted"
    /\ frame.dirty
    /\ args' = [storage |-> saveHistory(args.storage, frame.entries)]
    /\ frame' = [frame EXCEPT !.dirty = FALSE]
    /\ UNCHANGED <<call, pc, count, textVars, evalVars>>

HistoryNext ==
    \/ HistoryMount
    \/ HistoryAdd
    \/ HistoryRemove
    \/ HistoryClear
    \/ HistorySave

SpecHistory == HistoryInit /\ [][HistoryNext]_vars

\* the effect of a render always runs
SpecHistoryLive == SpecHistory /\ WF_vars(HistorySave)

-----------------------------------------------------------------------------
(* useCalculator.ts, Calculator.tsx and app.tsx                            *)
(*                                                                         *)
(* frame is the state of useCalculator and args the state of App: its      *)
(* currentMode, the ref calculatorSetExpression, the entries of the        *)
(* history and the last event that was handled.                            *)

INITIAL_STATE ==
    [expression |-> "", result |-> "", previousResult |-> "0",
     angleUnit |-> "rad", mode |-> "scientific", isError |-> FALSE]

SPACED_OPERATORS == {"+", "-", "×", "÷", "*", "/"}

\* /[\d.]/.test(char): some character of the text is a digit or a point
isDigitOrDecimal(char) ==
    \E i \in 1..Len(char) : IsDigit(CharAt(char, i)) \/ CharAt(char, i) = "."

RECURSIVE TrimStart(_)
TrimStart(s) ==
    IF s # "" /\ IsSpace(CharAt(s, 1)) THEN TrimStart(SubSeq(s, 2, Len(s)))
    ELSE s

RECURSIVE TrimEnd(_)
TrimEnd(s) ==
    IF s # "" /\ IsSpace(CharAt(s, Len(s))) THEN TrimEnd(SubSeq(s, 1, Len(s) - 1))
    ELSE s

\* String.prototype.trim
Trim(s) == TrimEnd(TrimStart(s))

\* s.slice(0, -1)
DropLast(s) == SubSeq(s, 1, Len(s) - 1)

\* the last character of the text, "" for the empty text
LastChar(s) == IF s = "" THEN "" ELSE CharAt(s, Len(s))

endsWithOperator(s) == LastChar(Trim(s)) \in SPACED_OPERATORS

\* the part of the text behind the last of + - × ÷ * / ( ) holds a point
lastNumberHasDecimal(s) ==
    \E i \in 1..Len(s) :
        /\ CharAt(s, i) = "."
        /\ \A j \in i..Len(s) :
              CharAt(s, j) \notin SPACED_OPERATORS \cup {"(", ")"}

\* prev with a new expression, the result cleared and the error flag lowered
WithExpression(prev, text) ==
    [prev EXCEPT !.expression = text, !.result = "", !.isError = FALSE]

\* the expression with a 0 put in front of a point that starts a number
WithLeadingZero(text, value) ==
    IF value = "." /\ (text = "" \/ endsWithOperator(text))
    THEN text \o "0" ELSE text

\* the operator value appended with spaces, in the place of an operator the
\* expression ends with
WithOperator(text, value) ==
    Trim(IF endsWithOperator(text) THEN DropLast(Trim(text)) ELSE text)
        \o " " \o value \o " "

\* the updater of appendToExpression
appendToExpression(prev, value) ==
    IF prev.isError /\ (isDigitOrDecimal(value) \/ value \in {"(", "π", "e"})
    THEN WithExpression(prev, value)
    ELSE IF prev.isError /\ value \in SPACED_OPERATORS
    THEN WithExpression(prev, prev.previousResult \o " " \o value \o " ")
    ELSE IF value = "." /\ lastNumberHasDecimal(prev.expression) THEN prev
    ELSE IF value \in SPACED_OPERATORS
    THEN IF Trim(prev.expression) = "" /\ value # "-" THEN prev
         ELSE WithExpression(prev, WithOperator(prev.expression, value))
    ELSE WithExpression(prev, WithLeadingZero(prev.expression, value) \o value)

\* clear
cleared(prev) == WithExpression(prev, "")

\* the updater of backspace
backspaced(prev) ==
    IF prev.isError THEN WithExpression(prev, "")
    ELSE IF prev.expression # "" /\ LastChar(prev.expression) = " "
    THEN [prev EXCEPT
            !.result = "",
            !.expression =
                IF LastChar(TrimEnd(prev.expression)) \in SPACED_OPERATORS
                THEN TrimEnd(DropLast(TrimEnd(prev.expression)))
                ELSE TrimEnd(prev.expression)]
    ELSE [prev EXCEPT !.result = "", !.expression = DropLast(prev.expression)]

RECURSIVE CountFrom(_, _, _)
\* the counter of the loop of getUnclosedParentheses after the whole text
CountFrom(s, i, cnt) ==
    IF i > Len(s) THEN cnt
    ELSE CountFrom(s, i + 1, CountChar(cnt, CharAt(s, i)))

getUnclosedParentheses(s) == UnclosedValue(CountFrom(s, 1, 0))

RECURSIVE BalancedFrom(_, _, _)
BalancedFrom(s, i, cnt) ==
    IF i > Len(s) THEN cnt = 0
    ELSE IF BalancedStops(CountChar(cnt, CharAt(s, i))) THEN FALSE
    ELSE BalancedFrom(s, i + 1, CountChar(cnt, CharAt(s, i)))

hasBalancedParentheses(s) == BalancedFrom(s, 1, 0)

RECURSIVE Repeat(_, _)
\* s.repeat(k)
Repeat(s, k) == IF k <= 0 THEN "" ELSE s \o Repeat(s, k - 1)

\* closing one parenthesis only
AutoClosed_Once(text) ==
    IF getUnclosedParentheses(text) > 0 THEN text \o ")" ELSE text

\* if (unclosed > 0) expression += ')'.repeat(unclosed)
AutoClosed(text) ==
    IF getUnclosedParentheses(text) > 0
    THEN text \o Repeat(")", getUnclosedParentheses(text))
    ELSE text

\* what math.evaluate does with the text of the calculator is left open:
\* it returns a finite number or an infinity, or it throws
CalculatorOutcomes ==
    {Num(5, 0), PosInfinity,
     [t |-> "throw", message |-> "Value expected (char 1)"]}

\* a calculateResult that keeps the previous answer
calculated_KeepAnswer(prev, res) ==
    IF res.success
    THEN [prev EXCEPT !.expression = AutoClosed(prev.expression),
                      !.result = res.displayValue,
                      !.isError = FALSE]
    ELSE [prev EXCEPT !.result = res.error, !.isError = TRUE]

\* the updater of calculateResult, res being what evaluate returned
calculated(prev, res) ==
    IF res.success
    THEN [prev EXCEPT !.expression = AutoClosed(prev.expression),
                      !.result = res.displayValue,
                      !.previousResult = res.displayValue,
                      !.isError = FALSE]
    ELSE [prev EXCEPT !.result = res.error, !.isError = TRUE]

\* historyEntry, without its id and its time
HistoryEntryOf(prev, res) ==
    [expression |-> prev.expression, result |-> res.displayValue]

CalculatorModes == {"basic", "scientific", "statistics", "graphing"}

\* the values the keypad and the keyboard append
CalculatorValues == {"1", ".", "+", "-", "×", "(", ")", "sin(", "π"}

NoEvent == [t |-> "none", text |-> ""]

Event(name, text) == [t |-> name, text |-> text]

\* useRef<((expr: string) => void) | null>(null); nothing assigns to it
RefIsNull == TRUE

AppState(mode, entries, event) ==
    [currentMode |-> mode, entries |-> entries, event |-> event]

CalculatorInit ==
    /\ frame = INITIAL_STATE
    /\ args = AppState("scientific", <<>>, NoEvent)
    /\ call = "App"
    /\ pc = "idle"
    /\ count = 0
    /\ raised = FALSE
    /\ result = NoResult
    /\ expression = ""
    /\ processed = ""
    /\ angleUnit = "rad"
    /\ scope = EmptyScope
    /\ raw = NotEvaluated
    /\ applied = {}

\* an event that changes the calculator and nothing of App but the event
CalculatorEvent(name, text, state) ==
    /\ pc = "idle"
    /\ count < MaxEvents
    /\ count' = count + 1
    /\ frame' = state
    /\ args' = [args EXCEPT !.event = Event(name, text)]
    /\ UNCHANGED <<call, pc, textVars, evalVars>>

\* a digit, operator or constant of the keypad or the keyboard, and
\* insertFunction(funcName)
CalcAppend ==
    /\ pc = "idle"
    /\ \E value \in CalculatorValues :
          CalculatorEvent("appendToExpression", value,
                          appendToExpression(frame, value))

\* insertAns
CalcInsertAns ==
    /\ pc = "idle"
    /\ CalculatorEvent("insertAns", frame.previousResult,
                       appendToExpression(frame, frame.previousResult))

CalcClear ==
    /\ pc = "idle"
    /\ CalculatorEvent("clear", "", cleared(frame))

\* allClear, from the keypad or the Delete key: setState(INITIAL_STATE)
CalcAllClear ==
    /\ pc = "idle"
    /\ CalculatorEvent("allClear", "", INITIAL_STATE)

CalcBackspace ==
    /\ pc = "idle"
    /\ CalculatorEvent("backspace", "", backspaced(frame))

CalcToggleAngleUnit ==
    /\ pc = "idle"
    /\ CalculatorEvent("toggleAngleUnit", "",
          [frame EXCEPT !.angleUnit = IF @ = "deg" THEN "rad" ELSE "deg"])

\* setExpression, called by a user of the hook
CalcSetExpression ==
    /\ pc = "idle"
    /\ \E text \in {"", "1 + 1", "sin("} :
          CalculatorEvent("setExpression", text, WithExpression(frame, text))

\* calculateResult on a blank expression
CalcBlank ==
    /\ Trim(frame.expression) = ""
    /\ CalculatorEvent("calculateBlank", "", frame)

\* calculateResult: evaluate, and onHistoryAdd(historyEntry) after a success
CalcCalculate ==
    /\ Trim(frame.expression) # ""
    /\ pc = "idle"
    /\ count < MaxEvents
    /\ count' = count + 1
    /\ \E o \in CalculatorOutcomes :
          LET res == evaluateReturn(o).result
          IN  /\ frame' = calculated(frame, res)
              /\ args' =
                    [args EXCEPT
                       !.event = Event(IF res.success THEN "calculated"
                                       ELSE "calculateFailed",
                                       IF res.success THEN res.displayValue
                                       ELSE res.error),
                       !.entries = IF res.success
                                   THEN <<HistoryEntryOf(frame, res)>> \o @
                                   ELSE @]
    /\ UNCHANGED <<call, pc, textVars, evalVars>>

\* a click on a mode tab: calculator.setMode(mode); onModeChange?.(mode),
\* which is setCurrentMode of App
CalcModeTab ==
    \E mode \in CalculatorModes :
        /\ pc = "idle"
        /\ count < MaxEvents
        /\ count' = count + 1
        /\ frame' = [frame EXCEPT !.mode = mode]
        /\ args' = [args EXCEPT !.currentMode = mode,
                                !.event = Event("setMode", mode)]
        /\ UNCHANGED <<call, pc, textVars, evalVars>>

\* the history panel is rendered
showHistory ==
    /\ args.currentMode \notin {"graphing", "statistics"}
    /\ Len(args.entries) > 0

\* calculatorSetExpression.current?.(text)
Recalled(prev, text) ==
    IF RefIsNull THEN prev ELSE WithExpression(prev, text)

\* a click on the expression of an entry of the history panel
CalcSelectExpression ==
    /\ showHistory
    /\ \E j \in DOMAIN args.entries :
          CalculatorEvent("selectExpression", args.entries[j].expression,
                          Recalled(frame, args.entries[j].expression))

\* a click on the result of an entry of the history panel
CalcSelectResult ==
    /\ showHistory
    /\ \E j \in DOMAIN args.entries :
          CalculatorEvent("selectResult", args.entries[j].result,
                          Recalled(frame, args.entries[j].result))

CalculatorNext ==
    \/ CalcAppend
    \/ CalcInsertAns
    \/ CalcClear
    \/ CalcAllClear
    \/ CalcBackspace
    \/ CalcToggleAngleUnit
    \/ CalcSetExpression
    \/ CalcBlank
    \/ CalcCalculate
    \/ CalcModeTab
    \/ CalcSelectExpression
    \/ CalcSelectResult

SpecCalculator == CalculatorInit /\ [][CalculatorNext]_vars

\* appendToExpression only, from the initial state
SpecAppend == CalculatorInit /\ [][CalcAppend]_vars

\* the auto-close of calculateResult on the texts of the parenthesis checks
AutoCloseInit ==
    /\ expression \in TextsOf(ParenPieces, MaxParenPieces)
    /\ processed = ""
    /\ call = "calculateResult"
    /\ pc = "unclosed"
    /\ count = 0
    /\ args = NoArguments
    /\ frame = NoFrame
    /\ angleUnit = "rad"
    /\ scope = EmptyScope
    /\ raw = NotEvaluated
    /\ applied = {}
    /\ result = NoResult
    /\ raised = FALSE

\* const unclosed = getUnclosedParentheses(expression)
AutoCloseCount ==
    /\ pc = "unclosed"
    /\ count' = getUnclosedParentheses(expression)
    /\ pc' = "close"
    /\ UNCHANGED <<combVars, call, textVars, evalVars>>

\* expression += ')'.repeat(unclosed): processed is the text handed to evaluate
AutoCloseAppend ==
    /\ pc = "close"
    /\ processed' = AutoClosed(expression)
    /\ pc' = "closed"
    /\ UNCHANGED <<combVars, call, count, expression, evalVars>>

AutoCloseNext ==
    \/ AutoCloseCount
    \/ AutoCloseAppend

SpecAutoClose == AutoCloseInit /\ [][AutoCloseNext]_vars

-----------------------------------------------------------------------------
(* useGraph: the list of graphed functions *)

GRAPH_COLORS == <<"#4a90d9", "#e53935", "#43a047">>

MAX_FUNCTIONS == 3

\* parseInt(f.id, 10) of an id, a text of decimal digits
parseInt(s) == DigitsValue(s, 1, DigitsEnd(s, 1), 0)

RECURSIVE toString(_)
\* (n).toString() of a non-negative integer
toString(n) ==
    LET digit == CharAt("0123456789", (n % 10) + 1)
    IN  IF n < 10 THEN digit ELSE toString(n \div 10) \o digit

GraphFunction(id, expr, color, visible) ==
    [id |-> id, expression |-> expr, color |-> color, visible |-> visible]

RECURSIVE MaxId(_, _, _)
\* Math.max(...prev.map((f) => parseInt(f.id, 10)), 0)
MaxId(prev, i, acc) ==
    IF i > Len(prev) THEN acc
    ELSE MaxId(prev, i + 1, Max(acc, parseInt(prev[i].id)))

\* prev.length % GRAPH_COLORS.length, as an index that starts at 1
colorIndex(prev) == (Len(prev) % Len(GRAPH_COLORS)) + 1

addFunction(prev, expr) ==
    IF Len(prev) >= MAX_FUNCTIONS THEN prev
    ELSE Append(prev, GraphFunction(toString(MaxId(prev, 1, 0) + 1), expr,
                                    GRAPH_COLORS[colorIndex(prev)], TRUE))

updateFunction(prev, id, expr) ==
    [i \in 1..Len(prev) |->
        IF prev[i].id = id THEN [prev[i] EXCEPT !.expression = expr] ELSE prev[i]]

removeFunction(prev, id) ==
    IF Len(prev) <= 1 THEN updateFunction(prev, id, "")
    ELSE SelectSeq(prev, LAMBDA f : f.id # id)

toggleFunctionVisibility(prev, id) ==
    [i \in 1..Len(prev) |->
        IF prev[i].id = id THEN [prev[i] EXCEPT !.visible = ~prev[i].visible] ELSE prev[i]]

GraphExpressions == {"x", "x^2"}

\* the ids of the functions in the list, and one that is not in the list
GraphIds(prev) == {prev[i].id : i \in 1..Len(prev)} \cup {"0"}

GraphCall(name, id, expr) == [t |-> name, id |-> id, expression |-> expr]

FunctionsInit ==
    /\ frame = [functions |-> <<GraphFunction("1", "", GRAPH_COLORS[1], TRUE)>>]
    /\ args = GraphCall("useGraph", "", "")
    /\ call = "useGraph"
    /\ pc = "idle"
    /\ count = 0
    /\ raised = FALSE
    /\ result = NoResult
    /\ expression = ""
    /\ processed = ""
    /\ angleUnit = "rad"
    /\ scope = EmptyScope
    /\ raw = NotEvaluated
    /\ applied = {}

\* setFunctions(updater)
FunctionsSet(op, functions) ==
    /\ count < MaxGraphCalls
    /\ count' = count + 1
    /\ args' = op
    /\ frame' = [functions |-> functions]
    /\ UNCHANGED <<call, pc, textVars, evalVars>>

FunctionsAdd ==
    /\ pc = "idle"
    /\ \E e \in GraphExpressions :
          FunctionsSet(GraphCall("addFunction", "", e), addFunction(frame.functions, e))

FunctionsUpdate ==
    /\ pc = "idle"
    /\ \E id \in GraphIds(frame.functions), e \in GraphExpressions :
          FunctionsSet(GraphCall("updateFunction", id, e),
                       updateFunction(frame.functions, id, e))

FunctionsRemove ==
    /\ pc = "idle"
    /\ \E id \in GraphIds(frame.functions) :
          FunctionsSet(GraphCall("removeFunction", id, ""),
                       removeFunction(frame.functions, id))

FunctionsToggle ==
    /\ pc = "idle"
    /\ \E id \in GraphIds(frame.functions) :
          FunctionsSet(GraphCall("toggleFunctionVisibility", id, ""),
                       toggleFunctionVisibility(frame.functions, id))

FunctionsNext == FunctionsAdd \/ FunctionsUpdate \/ FunctionsRemove \/ FunctionsToggle

SpecFunctions == FunctionsInit /\ [][FunctionsNext]_vars

-----------------------------------------------------------------------------
(* Claims about evaluate (SpecEval) *)

OnlyWhitespace(s) == {i \in 1..Len(s) : CharAt(s, i) \notin {" ", "\t", "\n"}} = {}

-----------------------------------------------------------------------------
(* Claims about preprocessExpression (SpecNorm) *)

\* the text the logarithm passes receive
TextBeforeLogs == ReplaceSqrt(ReplaceGlyphs(expression))

\* the text the implicit-multiplication pass receives
TextBeforeImplicit == LogPasses(TextBeforeLogs)

RECURSIVE AliasedFrom(_, _)
AliasedFrom(s, i) ==
    IF i > Len(s) THEN ""
    ELSE IF OccursAt(s, "ln(", i) THEN "log(" \o AliasedFrom(s, i + 3)
    ELSE IF OccursAt(s, "log(", i) THEN "log10(" \o AliasedFrom(s, i + 4)
    ELSE CharAt(s, i) \o AliasedFrom(s, i + 1)

\* every log( becomes log10( and every ln( becomes log(
Aliased(s) == AliasedFrom(s, 1)

\* every ln(, log(, log10( and log2( of the text stands at the start, after
\* an operator, a parenthesis or a blank, or after a digit
NamesNotInsideAWord(s) ==
    \A i \in 2..Len(s) :
        (\E name \in {"ln(", "log(", "log10(", "log2("} : OccursAt(s, name, i))
            => ~(IsLetter(CharAt(s, i - 1)) \/ CharAt(s, i - 1) = "_")

\* C4: normalization rewrites every log( that is not part of log10( or
\* log2( to log10( and every ln( to log(, and leaves log10( and log2(
\* alone, whatever precedes the name: the start, an operator or a digit.
C4_LogAliasing ==
    (pc = "implicit" /\ NamesNotInsideAWord(TextBeforeLogs))
        => processed = Aliased(TextBeforeLogs)

FollowedByLetterOrParen(s, i) ==
    \E j \in (i + 1)..Len(s) :
        /\ IsLetter(CharAt(s, j)) \/ CharAt(s, j) = "("
        /\ \A k \in (i + 1)..(j - 1) : IsSpace(CharAt(s, k))

\* the digit at index i is the 2 of log2 or the 1 or the 0 of log10
DigitOfLogName(s, i) ==
    OccursAt(s, "log2", i - 3) \/ OccursAt(s, "log10", i - 4) \/ OccursAt(s, "log10", i - 3)

\* the text "log" or "log1" ends right in front of index i
AfterLogPrefix(s, i) == OccursAt(s, "log", i - 3) \/ OccursAt(s, "log1", i - 4)

RECURSIVE StarsFrom(_, _, _)
StarsFrom(s, where, i) ==
    IF i > Len(s) THEN ""
    ELSE CharAt(s, i) \o (IF i \in where THEN "*" ELSE "") \o StarsFrom(s, where, i + 1)

\* s with a * put after every index of where
WithStarsAfter(s, where) == StarsFrom(s, where, 1)

\* C5 as claimed: the pass puts * after a digit exactly when the digit is
\* followed, through blanks, by a letter or ( and is not the digit of a
\* log10 or log2 name, and changes nothing else.
C5_StarExactlyOutsideLogNames ==
    pc = "percent" =>
        LET s == TextBeforeImplicit
        IN  processed = WithStarsAfter(s,
                {i \in 1..Len(s) : /\ IsDigit(CharAt(s, i))
                                   /\ FollowedByLetterOrParen(s, i)
                                   /\ ~DigitOfLogName(s, i)})

\* C5 amended: the pass puts * after a digit exactly when the digit is
\* followed, through blanks, by a letter or ( and the text in front of the
\* digit does not end with log or log1, and changes nothing else.
C5_StarExactlyAfterNoLogPrefix ==
    pc = "percent" =>
        LET s == TextBeforeImplicit
        IN  processed = WithStarsAfter(s,
                {i \in 1..Len(s) : /\ IsDigit(CharAt(s, i))
                                   /\ FollowedByLetterOrParen(s, i)
                                   /\ ~AfterLogPrefix(s, i)})

C5_Witness ==
    /\ pc = "percent"
    /\ expression = "2log10("
    /\ processed = "2*log10("

-----------------------------------------------------------------------------
(* Claims about the parenthesis predicates (SpecParen) *)

\* the number of "(" minus the number of ")" among the first k characters
Depth(s, k) ==
    Cardinality({i \in 1..k : CharAt(s, i) = "("})
        - Cardinality({i \in 1..k : CharAt(s, i) = ")"})

\* C6: hasBalancedParentheses(text) is true exactly when the depth counter
\* of a left-to-right scan never becomes negative and ends at zero; other
\* characters are ignored.
C6_BalancedIffNeverNegativeAndZero ==
    (call = "hasBalancedParentheses" /\ result # NoResult) =>
        result.value =
            (/\ \A k \in 0..Len(expression) : Depth(expression, k) >= 0
             /\ Depth(expression, Len(expression)) = 0)

C6_Witness ==
    /\ call = "hasBalancedParentheses"
    /\ expression = "())("
    /\ result = Returned(FALSE)

\* C7: getUnclosedParentheses(text) is max(0, number of "(" minus number
\* of ")"): never negative, and 0 when the ")" are at least as many as
\* the "(".
C7_UnclosedIsMaxZeroDifference ==
    (call = "getUnclosedParentheses" /\ result # NoResult) =>
        LET opens  == Cardinality({i \in 1..Len(expression) : CharAt(expression, i) = "("})
            closes == Cardinality({i \in 1..Len(expression) : CharAt(expression, i) = ")"})
        IN  /\ result.value = (IF opens - closes > 0 THEN opens - closes ELSE 0)
            /\ result.value >= 0
            /\ closes >= opens => result.value = 0

C7_Witness ==
    /\ call = "getUnclosedParentheses"
    /\ expression = "(sin(x)"
    /\ result = Returned(1)

-----------------------------------------------------------------------------
(* Claims about the combinatorics (SpecComb) *)

RECURSIVE FallingProduct(_, _)
\* the natural number n * (n - 1) * ... * (n - j + 1), that is n! / (n - j)!
FallingProduct(n, j) ==
    IF j = 0 THEN <<1>>
    ELSE LET rest == FallingProduct(n, j - 1)
         IN  IF rest = <<>> THEN rest ELSE BigTimesInt(rest, n - j + 1)

\* x is the binomial coefficient n! / (j! (n - j)!)
IsBinomial(x, n, j) ==
    /\ IsInteger(x)
    /\ BigTimes(BigOfFloat(x), FallingProduct(j, j)) = FallingProduct(n, j)

\* C8: for 0 <= r <= n, combinations(n, r) returns what combinations(n, n - r)
\* returns, and combinations(n, 0) returns 1.
C8_CombinationsSymmetric ==
    (call = "combinations" /\ pc = "returned" /\ 0 <= args.r /\ args.r <= args.n) =>
        /\ result = combinations(args.n, args.n - args.r)
        /\ args.r = 0 => result = Returned(One)

C8_Witness ==
    /\ call = "combinations"
    /\ pc = "returned"
    /\ args = [n |-> 10, r |-> 7]
    /\ result = Returned(FloatFromInt(120))

\* C9: in combinations(n, r) for 0 < r < n the running value after the
\* loop turn of index i is exactly the binomial coefficient C(n, i + 1),
\* an integer, and the value returned is n! / (r! (n - r)!).
C9_RunningValueIsBinomial ==
    (call = "combinations" /\ 0 < args.r /\ args.r < args.n) =>
        /\ (pc = "loop" /\ frame.i > 0) => IsBinomial(frame.result, args.n, frame.i)
        /\ pc = "returned" => IsBinomial(result.value, args.n, args.r)

\* C10: for n, r >= 0, permutations(n, r) is 0 when r > n, 1 when r = 0 and
\* otherwise the product of the r terms from n down; permutations(n, n) is
\* factorial(n), and permutations(n, r) * factorial(n - r) is factorial(n)
\* for r <= n.
C10_PermutationsAgainstFactorial ==
    (call = "permutations" /\ pc = "returned" /\ args.n >= 0 /\ args.r >= 0) =>
        /\ args.r > args.n => result = Returned(FloatZero)
        /\ args.r = 0 => result = Returned(One)
        /\ (0 < args.r /\ args.r <= args.n) =>
               result = Returned(PermutationsLoop(args.n, args.r, args.n, One))
        /\ args.r = args.n => result = factorial(args.n)
        /\ args.r <= args.n =>
               FloatTimes(result.value, factorial(args.n - args.r).value)
                   = factorial(args.n).value

-----------------------------------------------------------------------------
(* Claims about the domain checks (SpecDomain) *)

\* x is negative or not an integer
OutsideDomain(x) ==
    \/ ~IsFinite(x)
    \/ x.neg /\ ~IsZero(x)
    \/ \A v \in 0..MaxDomainN : x # Number(v)

\* the call threw and returned no value
Threw == raised /\ result.t = "thrown"

\* C11: factorial, permutations and combinations raise for every argument
\* that is negative or not an integer, normalInverseCDF raises for every
\* p <= 0 or p >= 1; the check comes first (permutations(-1, 2) raises
\* instead of returning 0) and no value is returned.
C11_DomainViolationsRaise ==
    pc = "returned" =>
        /\ (call = "factorial" /\ OutsideDomain(args.n)) => Threw
        /\ (call \in {"permutations", "combinations"}
                /\ (OutsideDomain(args.n) \/ OutsideDomain(args.r))) => Threw
        /\ (call = "normalInverseCDF"
                /\ (LessEq(args.p, Number(0)) \/ LessEq(Number(1), args.p))) => Threw

C11_Witness ==
    /\ call = "permutations"
    /\ pc = "returned"
    /\ args = [n |-> Number(-1), r |-> Number(2)]
    /\ raised
    /\ result = Thrown("nPr requires non-negative integers")

-----------------------------------------------------------------------------
(* Claims about the statistics (SpecStat) *)

\* C12: calculateStatistics returns a summary whose count is the length of
\* values; for the empty sequence mean, median, stdDev, variance and sum
\* are 0 and mode is the empty list, and no function raises on it.
C12_SummaryOfDataset ==
    pc = "returned" =>
        /\ ~raised
        /\ result.t = "returned"
        /\ call = "calculateStatistics" =>
               /\ result.value.count = Len(args.values)
               /\ result.value.values = args.values
               /\ args.values = <<>> =>
                      /\ result.value.mean = Zero
                      /\ result.value.median = Zero
                      /\ result.value.stdDev = Zero
                      /\ result.value.variance = Zero
                      /\ result.value.sum = Zero
                      /\ result.value.mode = <<>>
        /\ (args.values = <<>> /\ call # "calculateStatistics") =>
               result.value = IF call = "calculateMode" THEN <<>> ELSE Zero

C12_Witness ==
    /\ pc = "returned"
    /\ call = "calculateStatistics"
    /\ args.values = <<>>
    /\ result.value.count = 0
    /\ result.value.mode = <<>>

\* the occurrences of v in the dataset
Occurrences(values, v) == Cardinality({j \in 1..Len(values) : values[j] = v})

\* C13: for a non-empty sequence calculateMode returns, ascending and
\* without repeats, exactly the values of maximal occurrence count; it is
\* empty when there are several elements and each occurs once, and a
\* one-element sequence yields its element.
C13_ModeIsMostFrequent ==
    (pc = "returned" /\ call = "calculateMode" /\ args.values # <<>>) =>
        LET values == args.values
            modes  == result.value
            most   == {v \in StatValues :
                          /\ Occurrences(values, v) > 0
                          /\ \A w \in StatValues : Occurrences(values, w) <= Occurrences(values, v)}
        IN  /\ Len(values) = 1 => modes = values
            /\ (Len(values) > 1 /\ \A v \in StatValues : Occurrences(values, v) <= 1)
                   => modes = <<>>
            /\ (Len(values) > 1 /\ \E v \in StatValues : Occurrences(values, v) > 1) =>
                   /\ {modes[j] : j \in 1..Len(modes)} = most
                   /\ Len(modes) = Cardinality(most)
                   /\ \A j \in 1..(Len(modes) - 1) : Less(modes[j], modes[j + 1])

C13_Witness ==
    /\ pc = "returned"
    /\ call = "calculateMode"
    /\ args.values = <<Number(2), Negate(Literal(0, 15, 1)), Number(2), Negate(Literal(0, 15, 1))>>
    /\ result.value = <<Negate(Literal(0, 15, 1)), Number(2)>>

\* the sequence is ascending and holds the elements of values, each as
\* often as values does
IsSortedCopy(sorted, values) ==
    /\ Len(sorted) = Len(values)
    /\ \A v \in StatValues : Occurrences(sorted, v) = Occurrences(values, v)
    /\ \A j \in 1..(Len(sorted) - 1) : LessEq(sorted[j], sorted[j + 1])

\* the median of an ascending sequence that is not empty
MiddleOf(sorted) ==
    IF Len(sorted) % 2 = 1 THEN sorted[(Len(sorted) + 1) \div 2]
    ELSE Div(Add(sorted[Len(sorted) \div 2], sorted[Len(sorted) \div 2 + 1]), Number(2))

MedianReturned ==
    (pc = "returned" /\ call = "calculateMedian" /\ args.values # <<>>) =>
        \E sorted \in Datasets :
            /\ IsSortedCopy(sorted, args.values)
            /\ result.value = MiddleOf(sorted)

\* C14: calculateMedian returns the middle value of the sorted sequence
\* for odd length and the average of the two middle values for even
\* length, whatever the order of the input, and the input sequence is the
\* same after the call.
C14_MedianLeavesInput == [](MedianReturned) /\ [][args'.values = args.values]_vars

C14_Witness ==
    /\ pc = "returned"
    /\ call = "calculateMedian"
    /\ args.values = <<Number(2), Negate(Literal(0, 15, 1)), Zero, Zero>>
    /\ frame.sorted = <<Negate(Literal(0, 15, 1)), Zero, Zero, Number(2)>>
    /\ result.value = Zero

-----------------------------------------------------------------------------
(* Claims about the probability round trip (SpecRound) *)

\* 1e-3
RoundTolerance == Literal(0, 1, 3)

\* C15: for every p strictly between 0 and 1, in the three regions of the
\* inverse, normalCDF(normalInverseCDF(p)) differs from p by at most 1e-3.
C15_RoundTripWithinTolerance ==
    pc = "returned" =>
        LessEq(MathAbs(Sub(result.value, args.p)), RoundTolerance)

-----------------------------------------------------------------------------
(* Claims about parseDataInput (SpecParse) *)

\* the text is a finite number: all of it is one numeric literal, as
\* Number(text) reads it, and its value is finite
IsFiniteNumber(token) ==
    /\ token # ""
    /\ NumericPrefix(token) = Len(token)
    /\ parseFloat(token).t = "number"

RECURSIVE FiniteNumbersOf(_, _)
\* the values of the tokens that are finite numbers, in their order
FiniteNumbersOf(tokens, j) ==
    IF j > Len(tokens) THEN <<>>
    ELSE (IF IsFiniteNumber(tokens[j]) THEN <<parseFloat(tokens[j])>> ELSE <<>>)
         \o FiniteNumbersOf(tokens, j + 1)

\* C16: parseDataInput returns, in their order, exactly the tokens of the
\* text that are finite numbers; a token that is not a finite number
\* contributes nothing
C16_ExactlyTheNumericTokens ==
    pc = "returned" =>
        result.value = FiniteNumbersOf(SplitParts(expression), 1)

-----------------------------------------------------------------------------
(* Claims about evaluateFunction (SpecGraph) *)

\* C17: evaluateFunction never raises; it returns a number only when the
\* evaluation in radians succeeded with a finite number, and null in every
\* other case: a failure, a value that is no number, an infinity or NaN, as
\* for "1/x" at x = 0.
C17_NumberOnlyWhenFinite ==
    /\ ~raised
    /\ pc \in {"scope", "math", "result", "returned", "done"} => angleUnit = "rad"
    /\ pc = "done" =>
          IF /\ result.success
             /\ raw.t = "number"
             /\ raw \notin {PosInfinity, NegInfinity, NaN}
          THEN frame.returns = raw
          ELSE frame.returns = Null

C17_Witness ==
    /\ pc = "done"
    /\ args = GraphArguments("1/x", Num(0, 0))
    /\ raw = PosInfinity
    /\ result.success
    /\ frame.returns = Null

\* C18: the literal put in the place of x reaches the evaluator as it was
\* written, and evaluateFunction("x", v) returns v for every finite v
C18_BoundToTheSuppliedNumber ==
    /\ (pc \in {"scope", "math", "result", "returned", "done"}
            /\ Includes(expression, LiteralOf(args.x)))
        => Includes(processed, LiteralOf(args.x))
    /\ (pc = "done" /\ args.expression = "x") => frame.returns = args.x

-----------------------------------------------------------------------------
(* Claims about sequences of evaluate calls (SpecSequence) *)

\* the scope of the running call holds what its own angle unit puts there
\* and nothing of an earlier call
FreshScope ==
    /\ pc = "math" => scope = buildScope(angleUnit)
    /\ pc \in {"result", "returned"} => applied \subseteq {angleUnit}

\* C19: the result of a call depends only on its own expression and angle
\* unit: the scope is built per call, a call in degrees changes nothing for
\* a later call in radians, and nothing an expression defines or assigns is
\* visible to a later call
C19_CallsAreIndependent ==
    /\ FreshScope
    /\ pc = "returned" =>
          \A earlier \in frame.log :
              (earlier.expression = expression /\ earlier.angleUnit = angleUnit)
                  => earlier.result = result

-----------------------------------------------------------------------------
(* Claims about the error strings (SpecFriendly) *)

\* the entries of the table whose pattern occurs in the message
Matching(message) ==
    {i \in 1..Len(ERROR_MESSAGES) : Includes(message, ERROR_MESSAGES[i][1])}

FirstMatching(message) ==
    CHOOSE i \in Matching(message) : \A j \in Matching(message) : i <= j

\* C20: the error string of a failure is the friendly text of the first
\* pattern of the table, in table order, that occurs in the raw message;
\* without such a pattern it is 'Syntax Error' for a message of more than
\* 30 characters and the message itself otherwise; every error string
\* evaluate returns has at most 30 characters
C20_FriendlyErrorStrings ==
    /\ (pc = "returned" /\ raw.t = "throw") =>
          /\ ~result.success
          /\ result.error =
                IF Matching(raw.message) # {}
                THEN ERROR_MESSAGES[FirstMatching(raw.message)][2]
                ELSE IF Len(raw.message) > 30 THEN "Syntax Error"
                ELSE raw.message
    /\ (pc = "returned" /\ ~result.success) => Len(result.error) <= 30

\* a message with two patterns of the table, the later one first in the text
C20_Witness ==
    /\ pc = "returned"
    /\ raw = [t |-> "throw",
              message |-> "Value expected: Unexpected end of expression"]
    /\ result = Failure("Incomplete expression")

-----------------------------------------------------------------------------
(* Claims about the history hook (SpecHistory, SpecHistoryLive) *)

\* the time of an entry is not before the time of the entry after it
NewestFirst(entries) ==
    \A j \in 1..(Len(entries) - 1) :
        /\ entries[j].timestamp.t = "number"
        /\ entries[j + 1].timestamp.t = "number"
        /\ entries[j].timestamp.coeff >= entries[j + 1].timestamp.coeff

\* C21: in every state of the hook, the state loaded from storage at the
\* start included, entries holds at most 100 entries, newest first; addEntry
\* puts the new entry at index 0 and drops the oldest entries beyond 100
C21_AtMostHundredNewestFirst ==
    /\ Len(frame.entries) <= MAX_ENTRIES
    /\ NewestFirst(frame.entries)
    /\ (pc = "mounted" /\ frame.op = "addEntry") =>
          /\ frame.entries[1] = NewEntry(count)
          /\ Len(frame.entries) = Min(Len(frame.before) + 1, MAX_ENTRIES)
          /\ SubSeq(frame.entries, 2, Len(frame.entries))
                = SubSeq(frame.before, 1, Len(frame.entries) - 1)

\* what is stored is the JSON of the entries, and a hook started now loads
\* these entries in this order
SavedAndLoadable ==
    /\ pc = "mounted"
    /\ args.storage = Stringify(frame.entries)
    /\ loadHistory(args.storage).entries = frame.entries

\* C22: after the hook has mounted and after every addEntry, removeEntry
\* and clearHistory, what is stored under 'mathpwa-history' is eventually the
\* JSON of the current entries, so a hook started afterwards loads exactly
\* the same entries in the same order
C22_EventuallySaved == [](pc = "mounted" => <>[]SavedAndLoadable)

\* the element is a non-null object with a string id, expression and
\* result and a numeric timestamp
IsValidElement(el) ==
    /\ el.t = "object"
    /\ {el.id.t, el.expression.t, el.result.t} = {"string"}
    /\ el.timestamp.t = "number"

\* the valid elements of a stored array, in stored order
ValidElements(items) == SelectSeq(items, IsValidElement)

\* the entry has the id, expression, result and timestamp of the element
SameAsStored(entry, el) ==
    /\ entry.id = el.id.s
    /\ entry.expression = el.expression.s
    /\ entry.result = el.result.s
    /\ entry.timestamp = parseFloat(el.timestamp.lit)

IsStoredArray(storage) ==
    storage.t = "text" /\ storage.valid /\ storage.value.t = "array"

\* C23: loadHistory never raises; it returns (the state after the mount,
\* before the effect has saved the entries), in stored order, exactly the
\* elements of the stored array that are non-null objects with a string id,
\* expression and result and a numeric timestamp, and the empty list when
\* the key is absent, the text is no JSON or the value is no array
C23_LoadKeepsTheValidElements ==
    /\ ~raised
    /\ (pc = "mounted" /\ frame.op = "mount" /\ frame.dirty) =>
          IF IsStoredArray(args.storage)
          THEN LET valid == ValidElements(args.storage.value.items)
               IN  /\ Len(frame.entries) = Len(valid)
                   /\ \A j \in 1..Len(valid) :
                          SameAsStored(frame.entries[j], valid[j])
          ELSE frame.entries = <<>>

\* the stored array of the test 'validates entries from localStorage'
C23_Witness ==
    /\ pc = "mounted"
    /\ frame.op = "mount"
    /\ frame.dirty
    /\ args.storage = StoredText(JArray(<<StoredEntry(7), JNull, StoredEntry(5)>>))
    /\ Len(frame.entries) = 2
    /\ frame.entries[1].id = "s7" /\ frame.entries[2].id = "s5"

-----------------------------------------------------------------------------
(* Claims about the calculator (SpecCalculator, SpecAppend, SpecAutoClose) *)

\* C24: after a click on the expression (or the result) of an entry of the
\* history panel, the expression of the calculator is that expression (or
\* result)
C24_SelectingRecalls ==
    args.event.t \in {"selectExpression", "selectResult"}
        => frame.expression = args.event.text

\* the previous answer after a step: the displayValue of a calculateResult
\* that succeeded, '0' after allClear, and what it was after anything else
AnswerStep ==
    frame'.previousResult =
        IF args'.event.t = "calculated" THEN args'.event.text
        ELSE IF args'.event.t = "allClear" THEN "0"
        ELSE frame.previousResult

\* C26: previousResult is '0' at the start and after allClear, and
\* otherwise the displayValue of the last calculateResult that succeeded:
\* clear, backspace, appendToExpression, setExpression, toggleAngleUnit,
\* setMode and a failed or blank calculateResult leave it as it is
C26_PreviousResult == frame.previousResult = "0" /\ [][AnswerStep]_vars

\* an answer has been calculated and has survived a failed calculation
C26_Witness ==
    /\ args.event.t = "calculateFailed"
    /\ frame.isError
    /\ Len(args.entries) = 1
    /\ frame.previousResult = args.entries[1].result
    /\ frame.previousResult = "5"

\* the expression a fresh start with the value gives
FreshExpression(prev, value) ==
    IF value \in SPACED_OPERATORS
    THEN prev.previousResult \o " " \o value \o " "
    ELSE value

\* C27: in the error state appendToExpression(value) starts fresh for every
\* value: the new expression is the value alone or, for a spaced operator,
\* previousResult followed by the operator, and isError becomes false
C27_ErrorStateStartsFresh ==
    [][(frame.isError /\ args'.event.t \in {"appendToExpression", "insertAns"})
        => /\ frame'.expression = FreshExpression(frame, args'.event.text)
           /\ ~frame'.isError]_vars

\* C28: after any sequence of appendToExpression calls from the empty
\* expression, the expression does not begin with +, ×, ÷, * or /
C28_NoLeadingBinaryOperator ==
    LET trimmed == Trim(frame.expression)
    IN  trimmed # "" => SubSeq(trimmed, 1, 1) \notin SPACED_OPERATORS \ {"-"}

\* no prefix of the text has more ')' than '('
NoPrefixCloses(s) == \A k \in 0..Len(s) : Depth(s, k) >= 0

\* C29: for an expression of which no prefix has more ')' than '(', the text
\* calculateResult evaluates, the expression followed by
\* getUnclosedParentheses(expression) closing parentheses, has balanced
\* parentheses; and an expression with balanced parentheses has no unclosed
\* parenthesis
C29_AutoCloseBalances ==
    /\ pc \in {"close", "closed"} =>
          /\ count = getUnclosedParentheses(expression)
          /\ hasBalancedParentheses(expression) => count = 0
    /\ pc = "closed" =>
          /\ processed = expression \o Repeat(")", count)
          /\ NoPrefixCloses(expression) => hasBalancedParentheses(processed)

C29_Witness ==
    /\ pc = "closed"
    /\ expression = "sin((x"
    /\ count = 2
    /\ processed = "sin((x))"
    /\ hasBalancedParentheses(processed)

\* C30: the mode of App, currentMode, is the mode of the calculator in every
\* state: no operation changes one without the other
C30_ModesAgree == args.currentMode = frame.mode

-----------------------------------------------------------------------------
(* Claims about the graphed functions (SpecFunctions) *)

\* C25: after any sequence of addFunction, removeFunction, updateFunction and
\* toggleFunctionVisibility calls the graph holds at most 3 functions, and
\* no two of them have the same color
C25_AtMostThreeDistinctColors ==
    /\ Len(frame.functions) <= 3
    /\ \A i, j \in 1..Len(frame.functions) :
          i # j => frame.functions[i].color # frame.functions[j].color

=============================================================================
